---- MODULE Spec2Model ----
(***************************************************************************)
(* Blood glucose analyzer: the classification ladder                       *)
(* (backend/services/classification_service.py) and the OCR row clusterer  *)
(* (backend/services/ocr_service.py), modelled as the calls a client can   *)
(* make and the value each call returns or the exception it raises.        *)
(*                                                                         *)
(* Numbers.  A Python float is modelled by an integer count of grid steps  *)
(* of 0.02 (GridPerUnit steps make 1.0), or by NaN.  On this grid          *)
(* round(x, 1) never meets a tie and value * 18.0 meets a band limit only  *)
(* at 5.5 * 18.0 = 99.0, which binary floating point computes exactly, so  *)
(* the integer arithmetic below agrees with the float arithmetic of the    *)
(* code on every grid value.                                               *)
(*                                                                         *)
(* Strings that the code transforms (lower(), strip()) are sequences of    *)
(* one-character strings; labels the code only copies are TLA+ strings.    *)
(***************************************************************************)
EXTENDS Integers, Sequences, FiniteSets, TLC

(***************************************************************************)
(* Bounds of the model                                                     *)
(***************************************************************************)
\* radius, in grid steps, of the neighbourhood explored around each probe value
Delta == 2
\* longest batch handed to classify_multiple
MaxReadings == 2
\* largest number of text blocks handed to _group_by_rows
MaxBlocks == 3
\* center_y of a text block ranges over 0..MaxCoord
MaxCoord == 3
\* y_threshold ranges over -1..MaxThreshold
MaxThreshold == 2
\* phrases in a recognised text
MaxPhrases == 3
\* words in a text handed to the quality gate
MaxQualityWords == 30
\* text blocks the OCR engine reports for an image
MaxExtractBlocks == 3
\* files the upload folder can hold at once
MaxUploads == 2
\* most blocks on an image handed to /api/analyze
MaxAnalyzeBlocks == 3
\* threads asking for a service at the same time
MaxCallers == 2

(***************************************************************************)
(* Python strings: str.lower() and str.strip()                             *)
(***************************************************************************)
UpperAlpha == <<"A","B","C","D","E","F","G","H","I","J","K","L","M",
                "N","O","P","Q","R","S","T","U","V","W","X","Y","Z">>
LowerAlpha == <<"a","b","c","d","e","f","g","h","i","j","k","l","m",
                "n","o","p","q","r","s","t","u","v","w","x","y","z">>
Whitespace == {" ", "\t", "\n"}

LowerChar(c) ==
    IF \E i \in 1..Len(UpperAlpha) : UpperAlpha[i] = c
    THEN LowerAlpha[CHOOSE i \in 1..Len(UpperAlpha) : UpperAlpha[i] = c]
    ELSE c

Lower(s) == [i \in 1..Len(s) |-> LowerChar(s[i])]

Strip(s) ==
    LET keep == {i \in 1..Len(s) : s[i] \notin Whitespace}
    IN IF keep = {} THEN <<>>
       ELSE LET lo == CHOOSE i \in keep : \A j \in keep : i <= j
                hi == CHOOSE i \in keep : \A j \in keep : j <= i
            IN SubSeq(s, lo, hi)

(***************************************************************************)
(* Python values that reach the entry points: str, int/float, NaN, None,   *)
(* and (for the keys of a reading dict) an absent key.                     *)
(***************************************************************************)
PyStr(s)  == [kind |-> "str",  s |-> s,    n |-> 0]
PyNum(n)  == [kind |-> "num",  s |-> <<>>, n |-> n]
PyNaN     == [kind |-> "nan",  s |-> <<>>, n |-> 0]
PyNone    == [kind |-> "none", s |-> <<>>, n |-> 0]
PyMissing == [kind |-> "missing", s |-> <<>>, n |-> 0]

\* isinstance(value, (int, float))
IsNumber(v) == v.kind \in {"num", "nan"}

\* grid steps per 1.0 and per 0.1
GridPerTenth == 2 + 3
GridPerUnit == 10 * GridPerTenth

\* float comparisons; every comparison with NaN is False
Lt(a, k) == a.kind = "num" /\ a.n < k
Gt(a, k) == a.kind = "num" /\ a.n > k

\* round(x, 1) for x >= 0: the nearest multiple of 0.1
Round1(a) ==
    IF a.kind # "num" THEN a
    ELSE LET r == a.n % GridPerTenth
         IN IF 2 * r < GridPerTenth THEN PyNum(a.n - r)
            ELSE PyNum(a.n - r + GridPerTenth)

(***************************************************************************)
(* classification_service.py: configuration                                *)
(***************************************************************************)
MMOL_TO_MGDL == 18

s_fasting == <<"f","a","s","t","i","n","g">>
s_hba1c   == <<"h","b","a","1","c">>
s_ppbs    == <<"p","p","b","s">>
s_rbs     == <<"r","b","s">>
s_ogtt    == <<"o","g","t","t">>

s_mgdl    == <<"m","g","/","d","L">>
s_mmoll   == <<"m","m","o","l","/","l">>
s_mmol    == <<"m","m","o","l">>
s_percent == <<"%">>

\* a band of THRESHOLDS[t]['ranges']; max is in grid steps, unbounded stands
\* for float('inf')
Band(max, unbounded, classification, severity) ==
    [max |-> max, unbounded |-> unbounded,
     classification |-> classification, severity |-> severity]

Ladder(lowMax, normalMax, midMax, midLabel) ==
    << Band(lowMax, FALSE, "Low", "moderate"),
       Band(normalMax, FALSE, "Normal", "low"),
       Band(midMax, FALSE, midLabel, "moderate"),
       Band(0, TRUE, "Diabetes", "high") >>

THRESHOLDS ==
    [t \in {s_fasting, s_hba1c, s_ppbs, s_rbs, s_ogtt} |->
       CASE t = s_fasting ->
              [unit |-> s_mgdl,
               ranges |-> Ladder(70 * GridPerUnit, 99 * GridPerUnit,
                                 125 * GridPerUnit, "Prediabetes"),
               normal_range |-> [min |-> 70 * GridPerUnit, max |-> 99 * GridPerUnit],
               display_name |-> "Fasting Blood Sugar (FBS)"]
         [] t = s_hba1c ->
              [unit |-> s_percent,
               ranges |-> Ladder(40 * GridPerTenth, 56 * GridPerTenth,
                                 64 * GridPerTenth, "Prediabetes"),
               normal_range |-> [min |-> 40 * GridPerTenth, max |-> 56 * GridPerTenth],
               display_name |-> "HbA1c (Glycated Hemoglobin)"]
         [] t = s_ppbs ->
              [unit |-> s_mgdl,
               ranges |-> Ladder(70 * GridPerUnit, 139 * GridPerUnit,
                                 199 * GridPerUnit, "Prediabetes"),
               normal_range |-> [min |-> 70 * GridPerUnit, max |-> 139 * GridPerUnit],
               display_name |-> "Post-Prandial Blood Sugar (PPBS)"]
         [] t = s_rbs ->
              [unit |-> s_mgdl,
               ranges |-> Ladder(70 * GridPerUnit, 139 * GridPerUnit,
                                 199 * GridPerUnit, "Needs Monitoring"),
               normal_range |-> [min |-> 70 * GridPerUnit, max |-> 139 * GridPerUnit],
               display_name |-> "Random Blood Sugar (RBS)"]
         [] t = s_ogtt ->
              [unit |-> s_mgdl,
               ranges |-> Ladder(70 * GridPerUnit, 139 * GridPerUnit,
                                 199 * GridPerUnit, "Prediabetes"),
               normal_range |-> [min |-> 70 * GridPerUnit, max |-> 139 * GridPerUnit],
               display_name |-> "Oral Glucose Tolerance Test (OGTT 2-hour)"]]

\* RECOMMENDATIONS: the classifications that have a text, per test type
RECOMMENDATIONS ==
    [t \in {s_fasting, s_hba1c, s_ppbs, s_rbs, s_ogtt} |->
        IF t = s_rbs THEN {"Low", "Normal", "Needs Monitoring", "Diabetes"}
        ELSE {"Low", "Normal", "Prediabetes", "Diabetes"}]

(***************************************************************************)
(* classification_service.py: functions                                    *)
(***************************************************************************)
\* value * MMOL_TO_MGDL on floats; NaN stays NaN
Times(a, k) == IF a.kind = "num" THEN PyNum(a.n * k) ELSE a

\* mutant of LeqMax: the comparison is strict (value < range_info['max'])
LeqMax_strict(a, band) == a.kind = "num" /\ (band.unbounded \/ a.n < band.max)

\* value <= range_info['max'], where max may be float('inf')
LeqMax(a, band) == a.kind = "num" /\ (band.unbounded \/ a.n <= band.max)

\* mutant of convert_to_mgdl: the unit is compared without lower()
convert_to_mgdl_cased(value, unit, test_type) ==
    IF test_type = s_hba1c
    THEN [raised |-> "", value |-> value, unit |-> s_percent]
    ELSE IF unit.kind # "str"
    THEN [raised |-> "AttributeError", value |-> value, unit |-> <<>>]
    ELSE IF unit.s \in {s_mmoll, s_mmol}
    THEN [raised |-> "", value |-> Times(value, MMOL_TO_MGDL), unit |-> s_mgdl]
    ELSE [raised |-> "", value |-> value, unit |-> s_mgdl]

\* convert_to_mgdl(value, unit, test_type): the pair returned, or the
\* AttributeError of unit.lower() on a unit that is no string
convert_to_mgdl(value, unit, test_type) ==
    IF test_type = s_hba1c
    THEN [raised |-> "", value |-> value, unit |-> s_percent]
    ELSE IF unit.kind # "str"
    THEN [raised |-> "AttributeError", value |-> value, unit |-> <<>>]
    ELSE IF Lower(unit.s) \in {s_mmoll, s_mmol}
    THEN [raised |-> "", value |-> Times(value, MMOL_TO_MGDL), unit |-> s_mgdl]
    ELSE [raised |-> "", value |-> value, unit |-> s_mgdl]

\* validate_input(test_type, value): (is_valid, error_message)
validate_input(test_type, value) ==
    IF test_type \notin DOMAIN THRESHOLDS
    THEN [is_valid |-> FALSE, error |-> "Invalid test type"]
    ELSE IF ~IsNumber(value)
    THEN [is_valid |-> FALSE, error |-> "Value must be a number"]
    ELSE IF Lt(value, 0)
    THEN [is_valid |-> FALSE, error |-> "Value must be a positive number"]
    ELSE IF test_type = s_hba1c /\ Gt(value, 20 * GridPerUnit)
    THEN [is_valid |-> FALSE, error |-> "HbA1c value seems unusually high"]
    ELSE IF test_type # s_hba1c /\ Gt(value, 1000 * GridPerUnit)
    THEN [is_valid |-> FALSE, error |-> "Glucose value seems unusually high"]
    ELSE [is_valid |-> TRUE, error |-> ""]

\* the for loop of get_classification_for_value, from band i on, with the
\* loop variable prev_max; falling off the end gives the 'Unknown' fallback
RECURSIVE WalkRanges(_, _, _, _)
WalkRanges(ranges, i, prev_max, value) ==
    IF i > Len(ranges)
    THEN [classification |-> "Unknown", severity |-> "unknown",
          range |-> [min |-> PyNone, max |-> PyNone]]
    ELSE IF LeqMax(value, ranges[i])
    THEN [classification |-> ranges[i].classification,
          severity |-> ranges[i].severity,
          range |-> [min |-> PyNum(prev_max + (IF prev_max > 0 THEN GridPerUnit ELSE 0)),
                     max |-> IF ranges[i].unbounded THEN PyNone
                             ELSE PyNum(ranges[i].max)]]
    ELSE WalkRanges(ranges, i + 1, ranges[i].max, value)

get_classification_for_value(test_type, value) ==
    WalkRanges(THRESHOLDS[test_type].ranges, 1, 0, value)

\* get_recommendation: the table's text for the pair, or the generic sentence
get_recommendation(test_type, classification) ==
    IF test_type \in DOMAIN RECOMMENDATIONS /\ classification \in RECOMMENDATIONS[test_type]
    THEN [text |-> "table", test_type |-> test_type, classification |-> classification]
    ELSE [text |-> "consult", test_type |-> <<>>, classification |-> ""]

\* an exception leaving an entry point
Raise(exc) == [raised |-> exc]
Raised(r) == "raised" \in DOMAIN r

\* classify_glucose(test_type, value, unit): the dict returned, or the exception
classify_glucose(test_type, value, unit) ==
    IF test_type.kind # "str" THEN Raise("AttributeError")
    ELSE
    LET tt == Strip(Lower(test_type.s))
        v == validate_input(tt, value)
    IN IF ~v.is_valid THEN [success |-> FALSE, error |-> v.error]
       ELSE
       LET conv == convert_to_mgdl(value, unit, tt)
       IN IF conv.raised # "" THEN Raise(conv.raised)
          ELSE
          LET cr == get_classification_for_value(tt, conv.value)
          IN [success |-> TRUE,
              test_type |-> tt,
              display_name |-> THRESHOLDS[tt].display_name,
              original_value |-> value,
              original_unit |-> unit,
              value |-> Round1(conv.value),
              unit |-> conv.unit,
              classification |-> cr.classification,
              severity |-> cr.severity,
              range |-> cr.range,
              normal_range |-> THRESHOLDS[tt].normal_range,
              recommendation |-> get_recommendation(tt, cr.classification),
              disclaimer |-> "DISCLAIMER"]

\* reading.get(key, default) on a reading dict
DictGet(reading, key, default) ==
    IF reading[key].kind = "missing" THEN default ELSE reading[key]

\* the for loop of classify_multiple from reading i on; acc carries results,
\* has_diabetes and has_prediabetes; an exception of classify_glucose leaves
\* the loop and the function
RECURSIVE ClassifyLoop(_, _, _)
ClassifyLoop(readings, i, acc) ==
    IF i > Len(readings) THEN acc
    ELSE
    LET result == classify_glucose(DictGet(readings[i], "test_type", PyStr(<<>>)),
                                   DictGet(readings[i], "value", PyNum(0)),
                                   DictGet(readings[i], "unit", PyStr(s_mgdl)))
    IN IF Raised(result) THEN [acc EXCEPT !.raised = result.raised]
       ELSE
       LET ok == result.success
           c == IF ok THEN result.classification ELSE ""
       IN ClassifyLoop(readings, i + 1,
            [raised |-> "",
             results |-> Append(acc.results, result),
             has_diabetes |-> acc.has_diabetes \/ (ok /\ c = "Diabetes"),
             has_prediabetes |-> acc.has_prediabetes
                  \/ (ok /\ c # "Diabetes" /\ c \in {"Prediabetes", "Needs Monitoring"})])

\* mutant of classify_multiple: the prediabetes flag is tested before the
\* diabetes flag
classify_multiple_swapped(readings) ==
    LET acc == ClassifyLoop(readings, 1,
                 [raised |-> "", results |-> <<>>,
                  has_diabetes |-> FALSE, has_prediabetes |-> FALSE])
    IN IF acc.raised # "" THEN Raise(acc.raised)
       ELSE [results |-> acc.results,
             summary |->
               [total_readings |-> Len(readings),
                overall_status |->
                    IF acc.has_prediabetes THEN "Prediabetes/Monitoring Needed"
                    ELSE IF acc.has_diabetes THEN "Diabetes Range Detected"
                    ELSE "Normal Range",
                overall_severity |->
                    IF acc.has_prediabetes THEN "moderate"
                    ELSE IF acc.has_diabetes THEN "high"
                    ELSE "low"],
             disclaimer |-> "DISCLAIMER"]

\* classify_multiple(readings): the dict returned, or the exception
classify_multiple(readings) ==
    LET acc == ClassifyLoop(readings, 1,
                 [raised |-> "", results |-> <<>>,
                  has_diabetes |-> FALSE, has_prediabetes |-> FALSE])
    IN IF acc.raised # "" THEN Raise(acc.raised)
       ELSE [results |-> acc.results,
             summary |->
               [total_readings |-> Len(readings),
                overall_status |->
                    IF acc.has_diabetes THEN "Diabetes Range Detected"
                    ELSE IF acc.has_prediabetes THEN "Prediabetes/Monitoring Needed"
                    ELSE "Normal Range",
                overall_severity |->
                    IF acc.has_diabetes THEN "high"
                    ELSE IF acc.has_prediabetes THEN "moderate"
                    ELSE "low"],
             disclaimer |-> "DISCLAIMER"]

(***************************************************************************)
(* ocr_service.py: OCRService._group_by_rows                               *)
(***************************************************************************)
\* a text block; bbox is reduced to the two fields the clusterer reads
TextBlock(text, center_y, x_min) ==
    [text |-> text, bbox |-> [center_y |-> center_y, x_min |-> x_min]]

\* sorted(seq, key=lambda b: b['bbox'][field]) and list.sort(key=...): stable,
\* equal keys keep their relative order
RECURSIVE SortedBy(_, _)
SortedBy(seq, field) ==
    IF seq = <<>> THEN <<>>
    ELSE LET front == SortedBy(SubSeq(seq, 1, Len(seq) - 1), field)
             b == seq[Len(seq)]
             n == Cardinality({i \in 1..Len(front) :
                                 front[i].bbox[field] <= b.bbox[field]})
         IN SubSeq(front, 1, n) \o <<b>> \o SubSeq(front, n + 1, Len(front))

Abs(x) == IF x < 0 THEN -x ELSE x

\* the for loop of _group_by_rows over sorted_blocks[i..], then "add last row"
RECURSIVE RowLoop(_, _, _, _, _, _)
RowLoop(sorted_blocks, i, rows, current_row, current_y, y_threshold) ==
    IF i > Len(sorted_blocks)
    THEN IF current_row # <<>>
         THEN Append(rows, SortedBy(current_row, "x_min"))
         ELSE rows
    ELSE LET block == sorted_blocks[i]
             block_y == block.bbox.center_y
         IN IF Abs(block_y - current_y) <= y_threshold
            THEN RowLoop(sorted_blocks, i + 1, rows, Append(current_row, block),
                         current_y, y_threshold)
            ELSE RowLoop(sorted_blocks, i + 1,
                         Append(rows, SortedBy(current_row, "x_min")),
                         <<block>>, block_y, y_threshold)

\* mutant of group_by_rows: the loop starts at sorted_blocks[0], not [1:]
group_by_rows_from0(text_blocks, y_threshold) ==
    IF text_blocks = <<>> THEN <<>>
    ELSE LET sorted_blocks == SortedBy(text_blocks, "center_y")
         IN RowLoop(sorted_blocks, 1, <<>>, <<sorted_blocks[1]>>,
                    sorted_blocks[1].bbox.center_y, y_threshold)

\* mutant of group_by_rows: the blocks are not sorted by center_y first
group_by_rows_unsorted(text_blocks, y_threshold) ==
    IF text_blocks = <<>> THEN <<>>
    ELSE RowLoop(text_blocks, 2, <<>>, <<text_blocks[1]>>,
                 text_blocks[1].bbox.center_y, y_threshold)

\* mutant of group_by_rows: each row is sorted right to left
group_by_rows_right_to_left(text_blocks, y_threshold) ==
    IF text_blocks = <<>> THEN <<>>
    ELSE LET sorted_blocks == SortedBy(text_blocks, "center_y")
             rows == RowLoop(sorted_blocks, 2, <<>>, <<sorted_blocks[1]>>,
                             sorted_blocks[1].bbox.center_y, y_threshold)
         IN [r \in 1..Len(rows) |->
               [i \in 1..Len(rows[r]) |-> rows[r][Len(rows[r]) + 1 - i]]]

\* mutant of group_by_rows: a block is compared with the block before it,
\* not with the first block of the open row
group_by_rows_chained(text_blocks, y_threshold) ==
    IF text_blocks = <<>> THEN <<>>
    ELSE LET sorted_blocks == SortedBy(text_blocks, "center_y")
             n == Len(sorted_blocks)
             starts == {i \in 1..n :
                          i = 1 \/ Abs(sorted_blocks[i].bbox.center_y
                                        - sorted_blocks[i - 1].bbox.center_y)
                                      > y_threshold}
             nth(k) == CHOOSE i \in starts :
                          Cardinality({j \in starts : j < i}) = k - 1
             last(k) == IF k = Cardinality(starts) THEN n ELSE nth(k + 1) - 1
         IN [k \in 1..Cardinality(starts) |->
               SortedBy(SubSeq(sorted_blocks, nth(k), last(k)), "x_min")]
group_by_rows(text_blocks, y_threshold) ==
    IF text_blocks = <<>> THEN <<>>
    ELSE LET sorted_blocks == SortedBy(text_blocks, "center_y")
         IN RowLoop(sorted_blocks, 2, <<>>, <<sorted_blocks[1]>>,
                    sorted_blocks[1].bbox.center_y, y_threshold)

(***************************************************************************)
(* validation_service.py: keyword tables                                   *)
(***************************************************************************)
\* GLUCOSE_KEYWORDS (a Python set: no order)
GLUCOSE_KEYWORDS ==
    {<<"2"," ","h","o","u","r"," ","g","l","u","c","o","s","e">>,
     <<"2","-","h","o","u","r"," ","g","l","u","c","o","s","e">>,
     <<"2","h","r"," ","g","l","u","c","o","s","e">>,
     <<"a","1","c">>,
     <<"a","f","t","e","r"," ","m","e","a","l">>,
     <<"b","l","o","o","d"," ","g","l","u","c","o","s","e">>,
     <<"b","l","o","o","d"," ","s","u","g","a","r">>,
     <<"d","i","a","b","e","t","e","s">>,
     <<"d","i","a","b","e","t","i","c">>,
     <<"f",".","b",".","g">>,
     <<"f",".","b",".","s">>,
     <<"f","a","s","t","i","n","g">>,
     <<"f","a","s","t","i","n","g"," ","b","l","o","o","d"," ","g","l","u","c","o","s","e">>,
     <<"f","a","s","t","i","n","g"," ","b","l","o","o","d"," ","s","u","g","a","r">>,
     <<"f","a","s","t","i","n","g"," ","g","l","u","c","o","s","e">>,
     <<"f","b","g">>,
     <<"f","b","s">>,
     <<"g","l","u","c","o","s","e">>,
     <<"g","l","u","c","o","s","e"," ","t","o","l","e","r","a","n","c","e">>,
     <<"g","l","u","c","o","s","e"," ","t","o","l","e","r","a","n","c","e"," ","t","e","s","t">>,
     <<"g","l","y","c","a","t","e","d">>,
     <<"g","l","y","c","e","m","i","a">>,
     <<"g","l","y","c","o","h","e","m","o","g","l","o","b","i","n">>,
     <<"g","l","y","c","o","s","y","l","a","t","e","d"," ","h","a","e","m","o","g","l","o","b","i","n">>,
     <<"g","l","y","c","o","s","y","l","a","t","e","d"," ","h","e","m","o","g","l","o","b","i","n">>,
     <<"g","t","t">>,
     <<"h","a","e","m","o","g","l","o","b","i","n"," ","a","1","c">>,
     <<"h","b"," ","a","1","c">>,
     <<"h","b","a","1","c">>,
     <<"h","e","m","o","g","l","o","b","i","n"," ","a","1","c">>,
     <<"h","g","b","a","1","c">>,
     <<"h","y","p","e","r","g","l","y","c","e","m","i","a">>,
     <<"h","y","p","o","g","l","y","c","e","m","i","a">>,
     <<"o","g","t","t">>,
     <<"o","r","a","l"," ","g","l","u","c","o","s","e"," ","t","o","l","e","r","a","n","c","e">>,
     <<"p","b","s">>,
     <<"p","o","s","t"," ","m","e","a","l">>,
     <<"p","o","s","t"," ","p","r","a","n","d","i","a","l">>,
     <<"p","o","s","t","p","r","a","n","d","i","a","l">>,
     <<"p","p"," ","b","l","o","o","d"," ","s","u","g","a","r">>,
     <<"p","p"," ","g","l","u","c","o","s","e">>,
     <<"p","p","b","s">>,
     <<"p","r","e","-","d","i","a","b","e","t","e","s">>,
     <<"p","r","e","d","i","a","b","e","t","e","s">>,
     <<"r",".","b",".","s">>,
     <<"r","a","n","d","o","m"," ","b","l","o","o","d"," ","g","l","u","c","o","s","e">>,
     <<"r","a","n","d","o","m"," ","b","l","o","o","d"," ","s","u","g","a","r">>,
     <<"r","a","n","d","o","m"," ","g","l","u","c","o","s","e">>,
     <<"r","b","s">>,
     <<"s","u","g","a","r"," ","l","e","v","e","l">>}

\* REJECTION_KEYWORDS, in the order of the dict; message stands for the
\* domain's canned text
REJECTION_KEYWORDS ==
    <<
       [name |-> "haematology",
        message |-> [kind |-> "rejection", domain |-> "haematology"],
        keywords |->
          {<<"b","a","s","o","p","h","i","l">>,
           <<"b","l","o","o","d"," ","c","o","u","n","t">>,
           <<"c","b","c">>,
           <<"c","o","m","p","l","e","t","e"," ","b","l","o","o","d"," ","c","o","u","n","t">>,
           <<"d","i","f","f","e","r","e","n","t","i","a","l"," ","c","o","u","n","t">>,
           <<"e","o","s","i","n","o","p","h","i","l">>,
           <<"e","r","y","t","h","r","o","c","y","t","e"," ","s","e","d","i","m","e","n","t","a","t","i","o","n">>,
           <<"e","s","r">>,
           <<"h","a","e","m","a","t","o","c","r","i","t">>,
           <<"h","e","m","a","t","o","c","r","i","t">>,
           <<"l","y","m","p","h","o","c","y","t","e">>,
           <<"m","c","h">>,
           <<"m","c","h","c">>,
           <<"m","c","v">>,
           <<"m","o","n","o","c","y","t","e">>,
           <<"m","p","v">>,
           <<"n","e","u","t","r","o","p","h","i","l">>,
           <<"p","a","c","k","e","d"," ","c","e","l","l"," ","v","o","l","u","m","e">>,
           <<"p","c","v">>,
           <<"p","d","w">>,
           <<"p","l","a","t","e","l","e","t">>,
           <<"p","l","a","t","e","l","e","t","s">>,
           <<"r","b","c">>,
           <<"r","d","w">>,
           <<"r","e","t","i","c","u","l","o","c","y","t","e">>,
           <<"w","b","c">>}],
       [name |-> "lipid",
        message |-> [kind |-> "rejection", domain |-> "lipid"],
        keywords |->
          {<<"a","t","h","e","r","o","g","e","n","i","c">>,
           <<"c","h","o","l","e","s","t","e","r","o","l">>,
           <<"c","h","o","l","e","s","t","e","r","o","l"," ","r","a","t","i","o">>,
           <<"h","d","l">>,
           <<"h","d","l"," ","c","h","o","l","e","s","t","e","r","o","l">>,
           <<"l","d","l">>,
           <<"l","d","l"," ","c","h","o","l","e","s","t","e","r","o","l">>,
           <<"l","i","p","i","d"," ","p","a","n","e","l">>,
           <<"l","i","p","i","d"," ","p","r","o","f","i","l","e">>,
           <<"n","o","n","-","h","d","l">>,
           <<"t","o","t","a","l"," ","c","h","o","l","e","s","t","e","r","o","l">>,
           <<"t","r","i","g","l","y","c","e","r","i","d","e">>,
           <<"t","r","i","g","l","y","c","e","r","i","d","e","s">>,
           <<"v","l","d","l">>}],
       [name |-> "liver",
        message |-> [kind |-> "rejection", domain |-> "liver"],
        keywords |->
          {<<"a","l","b","u","m","i","n">>,
           <<"a","l","k","a","l","i","n","e"," ","p","h","o","s","p","h","a","t","a","s","e">>,
           <<"a","l","p">>,
           <<"a","l","t">>,
           <<"a","s","t">>,
           <<"b","i","l","i","r","u","b","i","n">>,
           <<"c","o","n","j","u","g","a","t","e","d"," ","b","i","l","i","r","u","b","i","n">>,
           <<"d","i","r","e","c","t"," ","b","i","l","i","r","u","b","i","n">>,
           <<"g","a","m","m","a"," ","g","t">>,
           <<"g","g","t">>,
           <<"g","l","o","b","u","l","i","n">>,
           <<"h","e","p","a","t","i","c">>,
           <<"i","n","d","i","r","e","c","t"," ","b","i","l","i","r","u","b","i","n">>,
           <<"l","f","t">>,
           <<"l","i","v","e","r"," ","f","u","n","c","t","i","o","n">>,
           <<"s","g","o","t">>,
           <<"s","g","p","t">>,
           <<"t","o","t","a","l"," ","p","r","o","t","e","i","n">>}],
       [name |-> "kidney",
        message |-> [kind |-> "rejection", domain |-> "kidney"],
        keywords |->
          {<<"b","l","o","o","d"," ","u","r","e","a"," ","n","i","t","r","o","g","e","n">>,
           <<"b","u","n">>,
           <<"c","r","e","a","t","i","n","i","n","e">>,
           <<"c","r","e","a","t","i","n","i","n","e"," ","c","l","e","a","r","a","n","c","e">>,
           <<"c","y","s","t","a","t","i","n">>,
           <<"e","g","f","r">>,
           <<"g","f","r">>,
           <<"k","f","t">>,
           <<"k","i","d","n","e","y"," ","f","u","n","c","t","i","o","n">>,
           <<"m","i","c","r","o","a","l","b","u","m","i","n">>,
           <<"r","e","n","a","l"," ","f","u","n","c","t","i","o","n">>,
           <<"r","f","t">>,
           <<"u","r","e","a">>,
           <<"u","r","i","c"," ","a","c","i","d">>}],
       [name |-> "thyroid",
        message |-> [kind |-> "rejection", domain |-> "thyroid"],
        keywords |->
          {<<"a","n","t","i","-","t","p","o">>,
           <<"f","r","e","e"," ","t","3">>,
           <<"f","r","e","e"," ","t","4">>,
           <<"f","t","3">>,
           <<"f","t","4">>,
           <<"t","3">>,
           <<"t","4">>,
           <<"t","h","y","r","o","i","d">>,
           <<"t","h","y","r","o","i","d"," ","f","u","n","c","t","i","o","n">>,
           <<"t","h","y","r","o","i","d"," ","p","r","o","f","i","l","e">>,
           <<"t","h","y","r","o","i","d"," ","s","t","i","m","u","l","a","t","i","n","g">>,
           <<"t","h","y","r","o","x","i","n","e">>,
           <<"t","p","o"," ","a","n","t","i","b","o","d","y">>,
           <<"t","r","i","i","o","d","o","t","h","y","r","o","n","i","n","e">>,
           <<"t","s","h">>}],
       [name |-> "urine",
        message |-> [kind |-> "rejection", domain |-> "urine"],
        keywords |->
          {<<"c","a","s","t">>,
           <<"c","r","y","s","t","a","l","s">>,
           <<"e","p","i","t","h","e","l","i","a","l"," ","c","e","l","l","s">>,
           <<"p","u","s"," ","c","e","l","l","s">>,
           <<"s","p","e","c","i","f","i","c"," ","g","r","a","v","i","t","y">>,
           <<"u","r","i","n","a","l","y","s","i","s">>,
           <<"u","r","i","n","e"," ","a","n","a","l","y","s","i","s">>,
           <<"u","r","i","n","e"," ","c","u","l","t","u","r","e">>,
           <<"u","r","i","n","e"," ","k","e","t","o","n","e">>,
           <<"u","r","i","n","e"," ","m","i","c","r","o","s","c","o","p","y">>,
           <<"u","r","i","n","e"," ","p","h">>,
           <<"u","r","i","n","e"," ","p","r","o","t","e","i","n">>,
           <<"u","r","i","n","e"," ","r","o","u","t","i","n","e">>}],
       [name |-> "cardiac",
        message |-> [kind |-> "rejection", domain |-> "cardiac"],
        keywords |->
          {<<"b","n","p">>,
           <<"c","a","r","d","i","a","c"," ","e","n","z","y","m","e","s">>,
           <<"c","a","r","d","i","a","c"," ","m","a","r","k","e","r","s">>,
           <<"c","k","-","m","b">>,
           <<"c","k","m","b">>,
           <<"c","p","k">>,
           <<"c","r","e","a","t","i","n","e"," ","k","i","n","a","s","e">>,
           <<"h","o","m","o","c","y","s","t","e","i","n","e">>,
           <<"l","d","h">>,
           <<"m","y","o","g","l","o","b","i","n">>,
           <<"n","t","-","p","r","o","b","n","p">>,
           <<"t","r","o","p","o","n","i","n">>}]
    >>

\* GLUCOSE_TEST_TYPES, in the order of the dict
GLUCOSE_TEST_TYPES ==
    <<
       [type |-> "fasting",
        display_name |-> "Fasting Blood Sugar (FBS)",
        keywords |->
          {<<"f",".","b",".","g">>,
           <<"f",".","b",".","s">>,
           <<"f","a","s","t","i","n","g">>,
           <<"f","a","s","t","i","n","g"," ","b","l","o","o","d"," ","g","l","u","c","o","s","e">>,
           <<"f","a","s","t","i","n","g"," ","b","l","o","o","d"," ","s","u","g","a","r">>,
           <<"f","a","s","t","i","n","g"," ","g","l","u","c","o","s","e">>,
           <<"f","b","g">>,
           <<"f","b","s">>}],
       [type |-> "hba1c",
        display_name |-> "HbA1c (Glycated Hemoglobin)",
        keywords |->
          {<<"a","1","c">>,
           <<"g","l","y","c","a","t","e","d"," ","h","a","e","m","o","g","l","o","b","i","n">>,
           <<"g","l","y","c","a","t","e","d"," ","h","e","m","o","g","l","o","b","i","n">>,
           <<"g","l","y","c","o","h","e","m","o","g","l","o","b","i","n">>,
           <<"g","l","y","c","o","s","y","l","a","t","e","d">>,
           <<"h","a","e","m","o","g","l","o","b","i","n"," ","a","1","c">>,
           <<"h","b"," ","a","1","c">>,
           <<"h","b","a","1","c">>,
           <<"h","e","m","o","g","l","o","b","i","n"," ","a","1","c">>,
           <<"h","g","b","a","1","c">>}],
       [type |-> "ppbs",
        display_name |-> "Post-Prandial Blood Sugar (PPBS)",
        keywords |->
          {<<"2"," ","h","o","u","r">>,
           <<"2","-","h","o","u","r">>,
           <<"2","h","r">>,
           <<"a","f","t","e","r"," ","m","e","a","l">>,
           <<"p","b","s">>,
           <<"p","o","s","t"," ","m","e","a","l">>,
           <<"p","o","s","t"," ","p","r","a","n","d","i","a","l">>,
           <<"p","o","s","t","p","r","a","n","d","i","a","l">>,
           <<"p","p"," ","b","l","o","o","d"," ","s","u","g","a","r">>,
           <<"p","p"," ","g","l","u","c","o","s","e">>,
           <<"p","p","b","s">>}],
       [type |-> "rbs",
        display_name |-> "Random Blood Sugar (RBS)",
        keywords |->
          {<<"r",".","b",".","s">>,
           <<"r","a","n","d","o","m"," ","b","l","o","o","d"," ","g","l","u","c","o","s","e">>,
           <<"r","a","n","d","o","m"," ","b","l","o","o","d"," ","s","u","g","a","r">>,
           <<"r","a","n","d","o","m"," ","g","l","u","c","o","s","e">>,
           <<"r","b","s">>}],
       [type |-> "ogtt",
        display_name |-> "Oral Glucose Tolerance Test (OGTT)",
        keywords |->
          {<<"g","l","u","c","o","s","e"," ","t","o","l","e","r","a","n","c","e">>,
           <<"g","l","u","c","o","s","e"," ","t","o","l","e","r","a","n","c","e"," ","t","e","s","t">>,
           <<"g","t","t">>,
           <<"o","g","t","t">>,
           <<"o","r","a","l"," ","g","l","u","c","o","s","e"," ","t","o","l","e","r","a","n","c","e">>}]
    >>

(***************************************************************************)
(* validation_service.py: text matching                                    *)
(***************************************************************************)
Digits == {"0","1","2","3","4","5","6","7","8","9"}

\* \w of the regex engine, on the characters the model uses
IsWordChar(c) ==
    \/ c \in Digits
    \/ c = "_"
    \/ \E i \in 1..Len(LowerAlpha) : LowerAlpha[i] = c \/ UpperAlpha[i] = c

\* re.sub(r'\s+', ' ', s): every run of whitespace becomes one space
RECURSIVE CollapseWhitespace(_, _)
CollapseWhitespace(s, i) ==
    IF i > Len(s) THEN <<>>
    ELSE IF s[i] \in Whitespace
         THEN (IF i > 1 /\ s[i - 1] \in Whitespace THEN <<>> ELSE <<" ">>)
                  \o CollapseWhitespace(s, i + 1)
         ELSE <<s[i]>> \o CollapseWhitespace(s, i + 1)

_normalize_text(text) == CollapseWhitespace(Lower(text), 1)

\* keyword occurs in s starting at index i
OccursAt(s, keyword, i) ==
    /\ i + Len(keyword) - 1 <= Len(s)
    /\ \A j \in 1..Len(keyword) : s[i + j - 1] = keyword[j]

\* Python's `keyword in s`
Contains(s, keyword) ==
    \E i \in 1..(Len(s) - Len(keyword) + 1) : OccursAt(s, keyword, i)

\* \b between index i - 1 and index i of s
WordBoundary(s, i) ==
    (i > 1 /\ IsWordChar(s[i - 1])) # (i <= Len(s) /\ IsWordChar(s[i]))

\* re.search(r'\b' + re.escape(keyword) + r'\b', s)
ContainsWord(s, keyword) ==
    \E i \in 1..(Len(s) - Len(keyword) + 1) :
        /\ OccursAt(s, keyword, i)
        /\ WordBoundary(s, i)
        /\ WordBoundary(s, i + Len(keyword))

\* the found list, as a set: the code walks a Python set, whose order is
\* not fixed
_find_keywords(text, keyword_set) ==
    {keyword \in keyword_set :
        IF Len(keyword) <= 3 THEN ContainsWord(text, keyword)
        ELSE Contains(text, keyword)}

(***************************************************************************)
(* validation_service.py: validate_glucose_report                          *)
(***************************************************************************)
\* a user-facing message, by what it says
Message(kind) == [kind |-> kind, domain |-> "none"]

\* position of a report type in REJECTION_KEYWORDS, 0 when it is not a key
RejectionIndex(detected_type) ==
    IF \E i \in 1..Len(REJECTION_KEYWORDS) : REJECTION_KEYWORDS[i].name = detected_type
    THEN CHOOSE i \in 1..Len(REJECTION_KEYWORDS) : REJECTION_KEYWORDS[i].name = detected_type
    ELSE 0

get_rejection_message(detected_type) ==
    IF RejectionIndex(detected_type) # 0
    THEN REJECTION_KEYWORDS[RejectionIndex(detected_type)].message
    ELSE Message("not_glucose")

\* confidences are kept in hundredths
Min(a, b) == IF a <= b THEN a ELSE b

\* rejection_matches with the first report type of the table left out
RejectionMatches_from2(normalized_text) ==
    LET all == [i \in 1..(Len(REJECTION_KEYWORDS) - 1) |->
                  [report_type |-> REJECTION_KEYWORDS[i + 1].name,
                   found |-> _find_keywords(normalized_text,
                                            REJECTION_KEYWORDS[i + 1].keywords)]]
        NonEmpty(m) == m.found # {}
    IN SelectSeq(all, NonEmpty)

\* rejection_matches: the report types with at least one keyword found, in
\* the order of REJECTION_KEYWORDS
RejectionMatches(normalized_text) ==
    LET all == [i \in 1..Len(REJECTION_KEYWORDS) |->
                  [report_type |-> REJECTION_KEYWORDS[i].name,
                   found |-> _find_keywords(normalized_text,
                                            REJECTION_KEYWORDS[i].keywords)]]
        NonEmpty(m) == m.found # {}
    IN SelectSeq(all, NonEmpty)

\* sum(len(v) for v in rejection_matches.values())
RECURSIVE SumFound(_, _)
SumFound(matches, i) ==
    IF i > Len(matches) THEN 0
    ELSE Cardinality(matches[i].found) + SumFound(matches, i + 1)

\* max(rejection_matches.keys(), key=...) the other way round: the last of
\* the entries with the most keywords found
MaxByFound_last(matches) ==
    LET best == CHOOSE i \in 1..Len(matches) :
                  /\ \A j \in 1..Len(matches) :
                        Cardinality(matches[j].found) <= Cardinality(matches[i].found)
                  /\ \A j \in (i + 1)..Len(matches) :
                        Cardinality(matches[j].found) < Cardinality(matches[i].found)
    IN matches[best]

\* max(rejection_matches.keys(), key=lambda k: len(rejection_matches[k])):
\* the first, in dict order, of the entries with the most keywords found
MaxByFound(matches) ==
    LET best == CHOOSE i \in 1..Len(matches) :
                  /\ \A j \in 1..Len(matches) :
                        Cardinality(matches[j].found) <= Cardinality(matches[i].found)
                  /\ \A j \in 1..(i - 1) :
                        Cardinality(matches[j].found) < Cardinality(matches[i].found)
    IN matches[best]

OtherReportStronger_from3(total_rejection_keywords) ==
    total_rejection_keywords >= 3

\* if total_rejection_keywords > 3
OtherReportStronger(total_rejection_keywords) == total_rejection_keywords > 3

GlucoseConfidence_uncapped(glucose_count) == 60 + glucose_count * 10

\* round(min(0.95, 0.6 + (glucose_count * 0.1)), 2), in hundredths
GlucoseConfidence(glucose_count) == Min(95, 60 + glucose_count * 10)

\* round(min(0.9, 0.5 + (hits * 0.1)), 2), in hundredths
RejectionConfidence(hits) == Min(90, 50 + hits * 10)

s_hemoglobin == <<"h","e","m","o","g","l","o","b","i","n">>
s_a1c == <<"a","1","c">>
s_glycated == <<"g","l","y","c","a","t","e","d">>
s_glycosylated == <<"g","l","y","c","o","s","y","l","a","t","e","d">>

\* not s or not s.strip(), for None or a str
IsBlank(extracted_text) ==
    extracted_text.kind # "str" \/ Strip(extracted_text.s) = <<>>

ValidationResult(is_valid, confidence, keywords_found, report_type_detected, message) ==
    [is_valid |-> is_valid, confidence |-> confidence,
     keywords_found |-> keywords_found,
     report_type_detected |-> report_type_detected, message |-> message]

validate_glucose_report(extracted_text) ==
    IF IsBlank(extracted_text)
    THEN ValidationResult(FALSE, 0, {}, "unknown", Message("no_text"))
    ELSE
    LET normalized_text == _normalize_text(extracted_text.s)
        found0 == _find_keywords(normalized_text, GLUCOSE_KEYWORDS)
        rejection_matches == RejectionMatches(normalized_text)
        hemoglobin_alone ==
            /\ Contains(normalized_text, s_hemoglobin)
            /\ ~Contains(normalized_text, s_a1c)
            /\ ~Contains(normalized_text, s_glycated)
            /\ ~Contains(normalized_text, s_glycosylated)
            /\ ~Contains(normalized_text, s_hba1c)
        glucose_keywords_found ==
            IF hemoglobin_alone /\ s_hemoglobin \in found0
            THEN found0 \ {s_hemoglobin} ELSE found0
        glucose_count == Cardinality(glucose_keywords_found)
    IN IF glucose_count >= 2
       THEN ValidationResult(TRUE, GlucoseConfidence(glucose_count),
                             glucose_keywords_found, "glucose", Message("valid"))
       ELSE IF glucose_count = 1
       THEN IF OtherReportStronger(SumFound(rejection_matches, 1))
            THEN LET detected == MaxByFound(rejection_matches)
                 IN ValidationResult(FALSE, 30, glucose_keywords_found,
                                     detected.report_type,
                                     get_rejection_message(detected.report_type))
            ELSE ValidationResult(TRUE, 50, glucose_keywords_found, "glucose",
                                  Message("low_confidence"))
       ELSE IF rejection_matches # <<>>
            THEN LET detected == MaxByFound(rejection_matches)
                 IN ValidationResult(FALSE,
                                     RejectionConfidence(Cardinality(detected.found)),
                                     {}, detected.report_type,
                                     get_rejection_message(detected.report_type))
            ELSE ValidationResult(FALSE, 0, {}, "unknown", Message("unidentified"))

(***************************************************************************)
(* validation_service.py: detect_report_type                               *)
(***************************************************************************)
s_glucose == <<"g","l","u","c","o","s","e">>
s_blood_sugar == <<"b","l","o","o","d"," ","s","u","g","a","r">>

\* detected_types: the test types with at least one keyword found, in the
\* order of GLUCOSE_TEST_TYPES
DetectedTypes(normalized_text) ==
    LET all == [i \in 1..Len(GLUCOSE_TEST_TYPES) |->
                  LET found == _find_keywords(normalized_text,
                                              GLUCOSE_TEST_TYPES[i].keywords)
                  IN [type |-> GLUCOSE_TEST_TYPES[i].type,
                      display_name |-> GLUCOSE_TEST_TYPES[i].display_name,
                      keywords_found |-> found,
                      match_count |-> Cardinality(found)]]
        NonEmpty(d) == d.keywords_found # {}
    IN SelectSeq(all, NonEmpty)

\* list.sort(key=match_count, reverse=True): stable, larger counts first
RECURSIVE SortedByMatchCountDesc(_)
SortedByMatchCountDesc(seq) ==
    IF seq = <<>> THEN <<>>
    ELSE LET rest == SortedByMatchCountDesc(SubSeq(seq, 1, Len(seq) - 1))
             x == seq[Len(seq)]
             before == {i \in 1..Len(rest) : rest[i].match_count >= x.match_count}
             k == Cardinality(before)
         IN SubSeq(rest, 1, k) \o <<x>> \o SubSeq(rest, k + 1, Len(rest))

\* mutant of detect_report_type: detected_types is left in table order
detect_report_type_unsorted(extracted_text) ==
    IF IsBlank(extracted_text)
    THEN [test_type |-> "unknown", display_name |-> "Unknown",
          is_multiple |-> FALSE, all_types |-> <<>>]
    ELSE
    LET normalized_text == _normalize_text(extracted_text.s)
        detected_types == DetectedTypes(normalized_text)
        sorted == detected_types
    IN IF detected_types = <<>>
       THEN [test_type |-> "unknown", display_name |-> "Unknown",
             is_multiple |-> FALSE, all_types |-> <<>>]
       ELSE IF Len(detected_types) = 1
       THEN [test_type |-> detected_types[1].type,
             display_name |-> detected_types[1].display_name,
             is_multiple |-> FALSE, all_types |-> <<detected_types[1].type>>]
       ELSE [test_type |-> "multiple", display_name |-> "Multiple Glucose Tests",
             is_multiple |-> TRUE,
             all_types |-> [i \in 1..Len(sorted) |-> sorted[i].type],
             primary_type |-> sorted[1].type,
             details |-> sorted]
detect_report_type(extracted_text) ==
    IF IsBlank(extracted_text)
    THEN [test_type |-> "unknown", display_name |-> "Unknown",
          is_multiple |-> FALSE, all_types |-> <<>>]
    ELSE
    LET normalized_text == _normalize_text(extracted_text.s)
        detected_types == DetectedTypes(normalized_text)
        sorted == SortedByMatchCountDesc(detected_types)
    IN IF detected_types = <<>>
       THEN IF Contains(normalized_text, s_glucose)
                 \/ Contains(normalized_text, s_blood_sugar)
            THEN [test_type |-> "unknown",
                  display_name |-> "Glucose Test (Type Unknown)",
                  is_multiple |-> FALSE, all_types |-> <<>>]
            ELSE [test_type |-> "unknown", display_name |-> "Unknown",
                  is_multiple |-> FALSE, all_types |-> <<>>]
       ELSE IF Len(detected_types) = 1
       THEN [test_type |-> detected_types[1].type,
             display_name |-> detected_types[1].display_name,
             is_multiple |-> FALSE, all_types |-> <<detected_types[1].type>>]
       ELSE [test_type |-> "multiple", display_name |-> "Multiple Glucose Tests",
             is_multiple |-> TRUE,
             all_types |-> [i \in 1..Len(sorted) |-> sorted[i].type],
             primary_type |-> sorted[1].type,
             details |-> sorted]

(***************************************************************************)
(* validation_service.py: validate_image_text_quality                      *)
(***************************************************************************)
\* len(s.split()): the number of maximal runs of non-whitespace
WordCount(s) ==
    Cardinality({i \in 1..Len(s) :
                    /\ s[i] \notin Whitespace
                    /\ (i = 1 \/ s[i - 1] \in Whitespace)})

\* re.search(r'\d+\.?\d*', s)
HasNumbers(s) == \E i \in 1..Len(s) : s[i] \in Digits

\* re.search(r'\d+\.\d+', s)
HasDecimalNumbers(s) ==
    \E i \in 1..(Len(s) - 2) :
        s[i] \in Digits /\ s[i + 1] = "." /\ s[i + 2] \in Digits

IsLowQuality_upto(word_count) == word_count <= 15

\* if word_count < 15
IsLowQuality(word_count) == word_count < 15

\* if word_count < 5
TooFewWords(word_count) == word_count < 5

validate_image_text_quality(extracted_text) ==
    IF extracted_text.kind # "str" \/ extracted_text.s = <<>>
    THEN [is_sufficient |-> FALSE, word_count |-> 0, has_numbers |-> FALSE,
          message |-> Message("no_text_extracted")]
    ELSE
    LET word_count == WordCount(extracted_text.s)
        has_numbers == HasNumbers(extracted_text.s)
        has_decimal_numbers == HasDecimalNumbers(extracted_text.s)
    IN IF TooFewWords(word_count)
       THEN [is_sufficient |-> FALSE, word_count |-> word_count,
             has_numbers |-> has_numbers, message |-> Message("very_little_text")]
       ELSE IF ~has_numbers
       THEN [is_sufficient |-> FALSE, word_count |-> word_count,
             has_numbers |-> FALSE, message |-> Message("no_numeric_values")]
       ELSE IF IsLowQuality(word_count)
       THEN [is_sufficient |-> TRUE, word_count |-> word_count,
             has_numbers |-> has_numbers, quality |-> "low",
             message |-> Message("limited_text")]
       ELSE [is_sufficient |-> TRUE, word_count |-> word_count,
             has_numbers |-> has_numbers,
             has_decimal_numbers |-> has_decimal_numbers,
             quality |-> IF word_count >= 30 THEN "good"
                         ELSE "moderate",
             message |-> Message("sufficient")]

(***************************************************************************)
(* validation_service.py: comprehensive_validation                         *)
(***************************************************************************)
\* Python's None where a dict is expected
Null == [none |-> TRUE]

comprehensive_validation_no_gate(extracted_text) ==
    LET quality_check == validate_image_text_quality(extracted_text)
        report_validation == validate_glucose_report(extracted_text)
        report_type == detect_report_type(extracted_text)
    IN IF ~report_validation.is_valid
       THEN [is_valid |-> FALSE, validation_stage |-> "report_validation",
             quality |-> quality_check, report_validation |-> report_validation,
             report_type |-> Null, message |-> report_validation.message]
       ELSE [is_valid |-> TRUE, validation_stage |-> "complete",
             quality |-> quality_check, report_validation |-> report_validation,
             report_type |-> report_type,
             message |-> [kind |-> "valid_ready",
                          domain |-> report_type.display_name]]

comprehensive_validation(extracted_text) ==
    LET quality_check == validate_image_text_quality(extracted_text)
        report_validation == validate_glucose_report(extracted_text)
        report_type == detect_report_type(extracted_text)
    IN IF ~quality_check.is_sufficient
       THEN [is_valid |-> FALSE, validation_stage |-> "quality_check",
             quality |-> quality_check, report_validation |-> Null,
             report_type |-> Null, message |-> quality_check.message]
       ELSE IF ~report_validation.is_valid
       THEN [is_valid |-> FALSE, validation_stage |-> "report_validation",
             quality |-> quality_check, report_validation |-> report_validation,
             report_type |-> Null, message |-> report_validation.message]
       ELSE [is_valid |-> TRUE, validation_stage |-> "complete",
             quality |-> quality_check, report_validation |-> report_validation,
             report_type |-> report_type,
             message |-> [kind |-> "valid_ready",
                          domain |-> report_type.display_name]]

(***************************************************************************)
(* ocr_service.py: keyword table, number and unit extraction               *)
(***************************************************************************)
\* OCRService.GLUCOSE_KEYWORDS, in the order of the dict and of each list
OCRService_GLUCOSE_KEYWORDS ==
    <<
       [test_type |-> s_fasting,
        keywords |->
          <<<<"f","a","s","t","i","n","g">>,
            <<"f","b","s">>,
            <<"f","b","g">>,
            <<"f","a","s","t","i","n","g"," ","b","l","o","o","d"," ","s","u","g","a","r">>,
            <<"f","a","s","t","i","n","g"," ","g","l","u","c","o","s","e">>,
            <<"f","a","s","t","i","n","g"," ","b","l","o","o","d"," ","g","l","u","c","o","s","e">>,
            <<"f",".","b",".","s">>,
            <<"f",".","b",".","g">>,
            <<"f","b","s"," ","g","l","u","c","o","s","e">>>>],
       [test_type |-> s_hba1c,
        keywords |->
          <<<<"h","b","a","1","c">>,
            <<"h","b"," ","a","1","c">>,
            <<"a","1","c">>,
            <<"g","l","y","c","a","t","e","d"," ","h","e","m","o","g","l","o","b","i","n">>,
            <<"g","l","y","c","a","t","e","d"," ","h","a","e","m","o","g","l","o","b","i","n">>,
            <<"h","e","m","o","g","l","o","b","i","n"," ","a","1","c">>,
            <<"h","a","e","m","o","g","l","o","b","i","n"," ","a","1","c">>,
            <<"g","l","y","c","o","s","y","l","a","t","e","d"," ","h","e","m","o","g","l","o","b","i","n">>,
            <<"g","l","y","c","o","h","e","m","o","g","l","o","b","i","n">>,
            <<"h","g","b","a","1","c">>>>],
       [test_type |-> s_ppbs,
        keywords |->
          <<<<"p","p","b","s">>,
            <<"p","o","s","t"," ","p","r","a","n","d","i","a","l">>,
            <<"p","o","s","t","p","r","a","n","d","i","a","l">>,
            <<"p","p"," ","b","l","o","o","d"," ","s","u","g","a","r">>,
            <<"p","o","s","t"," ","m","e","a","l">>,
            <<"2"," ","h","o","u","r">>,
            <<"2","h","r">>,
            <<"2","-","h","o","u","r">>,
            <<"a","f","t","e","r"," ","m","e","a","l">>,
            <<"p","p"," ","g","l","u","c","o","s","e">>,
            <<"p","b","s">>>>],
       [test_type |-> s_rbs,
        keywords |->
          <<<<"r","b","s">>,
            <<"r","a","n","d","o","m">>,
            <<"r","a","n","d","o","m"," ","b","l","o","o","d"," ","s","u","g","a","r">>,
            <<"r","a","n","d","o","m"," ","g","l","u","c","o","s","e">>,
            <<"r",".","b",".","s">>,
            <<"r","a","n","d","o","m"," ","b","l","o","o","d"," ","g","l","u","c","o","s","e">>>>],
       [test_type |-> s_ogtt,
        keywords |->
          <<<<"o","g","t","t">>,
            <<"o","r","a","l"," ","g","l","u","c","o","s","e">>,
            <<"g","l","u","c","o","s","e"," ","t","o","l","e","r","a","n","c","e">>,
            <<"g","t","t">>,
            <<"o","r","a","l"," ","g","l","u","c","o","s","e"," ","t","o","l","e","r","a","n","c","e">>>>]
    >>

\* y_threshold: float = 20
DEFAULT_Y_THRESHOLD == 20

\* a block as extract_text_with_positions builds it; confidence in hundredths
OcrBlock(text, confidence, center_y, x_min) ==
    [text |-> text, confidence |-> confidence,
     bbox |-> [center_y |-> center_y, x_min |-> x_min]]

\* ' '.join(parts)
RECURSIVE JoinWithSpace(_)
JoinWithSpace(parts) ==
    IF parts = <<>> THEN <<>>
    ELSE IF Len(parts) = 1 THEN parts[1]
    ELSE parts[1] \o <<" ">> \o JoinWithSpace(Tail(parts))

\* ' '.join([block['text'] for block in blocks])
JoinTexts(blocks) == JoinWithSpace([i \in 1..Len(blocks) |-> blocks[i].text])

\* for test_type, keywords in self.GLUCOSE_KEYWORDS.items(), from entry t on
RECURSIVE FindTestTypeFrom(_, _)
FindTestTypeFrom(text_lower, t) ==
    IF t > Len(OCRService_GLUCOSE_KEYWORDS) THEN PyNone
    ELSE IF \E k \in 1..Len(OCRService_GLUCOSE_KEYWORDS[t].keywords) :
               Contains(text_lower, OCRService_GLUCOSE_KEYWORDS[t].keywords[k])
         THEN PyStr(OCRService_GLUCOSE_KEYWORDS[t].test_type)
         ELSE FindTestTypeFrom(text_lower, t + 1)

\* the first test type, in dict order, one of whose keywords is in the text
_find_test_type(text) == FindTestTypeFrom(Lower(text), 1)

DigitChars == <<"0","1","2","3","4","5","6","7","8","9">>
DigitValue(c) == (CHOOSE d \in 1..10 : DigitChars[d] = c) - 1

\* the index after the run of digits that starts at index i
RECURSIVE DigitRunEnd(_, _)
DigitRunEnd(s, i) ==
    IF i <= Len(s) /\ s[i] \in Digits THEN DigitRunEnd(s, i + 1) ELSE i

\* the integer written by the digits s[i], ..., s[j]
RECURSIVE DecimalValue(_, _, _)
DecimalValue(s, i, j) ==
    IF j < i THEN 0 ELSE 10 * DecimalValue(s, i, j - 1) + DigitValue(s[j])

RECURSIVE Pow10(_)
Pow10(n) == IF n = 0 THEN 1 ELSE 10 * Pow10(n - 1)

\* float() of the match of \d+\.?\d* that starts at the digit at index i,
\* in grid steps (the texts explored write numbers that lie on the grid)
NumberAt(s, i) ==
    LET e == DigitRunEnd(s, i)
        has_point == e <= Len(s) /\ s[e] = "."
        f == IF has_point THEN DigitRunEnd(s, e + 1) ELSE e
        fraction == IF has_point THEN DecimalValue(s, e + 1, f - 1) ELSE 0
        places == IF has_point THEN f - (e + 1) ELSE 0
    IN DecimalValue(s, i, e - 1) * GridPerUnit
          + (fraction * GridPerUnit) \div Pow10(places)

\* the first number in the text, or None.  The second pattern, \d+,\d+, is
\* tried only when the first finds no digit, and then finds none either.
_extract_number(text) ==
    LET digits == {i \in 1..Len(text) : text[i] \in Digits}
    IN IF digits = {} THEN PyNone
       ELSE PyNum(NumberAt(text, CHOOSE i \in digits : \A j \in digits : i <= j))

\* the index of the first non-whitespace character at or after index i
RECURSIVE SkipWhitespace(_, _)
SkipWhitespace(s, i) ==
    IF i <= Len(s) /\ s[i] \in Whitespace THEN SkipWhitespace(s, i + 1) ELSE i

\* head \s* /? \s* at index i: the index where the rest of the pattern starts
AfterSlash(s, i, head) ==
    LET a == SkipWhitespace(s, i + Len(head))
        b == IF a <= Len(s) /\ s[a] = "/" THEN a + 1 ELSE a
    IN SkipWhitespace(s, b)

\* re.search(r'mg\s*/?\s*d[lL]|mg%', s)
MatchesMgdl(s) ==
    \E i \in 1..Len(s) :
        \/ /\ OccursAt(s, <<"m","g">>, i)
           /\ LET j == AfterSlash(s, i, <<"m","g">>)
              IN j + 1 <= Len(s) /\ s[j] = "d" /\ s[j + 1] \in {"l", "L"}
        \/ OccursAt(s, <<"m","g","%">>, i)

\* re.search(r'mmol\s*/?\s*[lL]', s)
MatchesMmol(s) ==
    \E i \in 1..Len(s) :
        /\ OccursAt(s, <<"m","m","o","l">>, i)
        /\ LET j == AfterSlash(s, i, <<"m","m","o","l">>)
           IN j <= Len(s) /\ s[j] \in {"l", "L"}

u_mmolL == <<"m","m","o","l","/","L">>

\* UNIT_PATTERNS in dict order: 'mg/dL', 'mmol/L', '%'
_extract_unit(text) ==
    LET text_lower == Lower(text)
    IN IF MatchesMgdl(text_lower) THEN PyStr(s_mgdl)
       ELSE IF MatchesMmol(text_lower) THEN PyStr(u_mmolL)
       ELSE IF Contains(text_lower, s_percent) THEN PyStr(s_percent)
       ELSE PyNone

\* value in grid steps
_infer_unit(test_type, value) ==
    IF test_type = s_hba1c THEN s_percent
    ELSE IF value < 30 * GridPerUnit THEN u_mmolL
    ELSE s_mgdl

\* mutant of Plausible: the filter of glucose is applied to hba1c too
Plausible_glucose_range(test_type, number) ==
    GridPerUnit <= number /\ number <= 700 * GridPerUnit
\* 3 <= number <= 20 for hba1c, 1 <= number <= 700 otherwise
Plausible(test_type, number) ==
    IF test_type = s_hba1c
    THEN 3 * GridPerUnit <= number /\ number <= 20 * GridPerUnit
    ELSE GridPerUnit <= number /\ number <= 700 * GridPerUnit

(***************************************************************************)
(* ocr_service.py: extract_glucose_values, the row pass                    *)
(***************************************************************************)
\* round(total / count, 2) on hundredths: the nearest hundredth
RoundedMean(total, count) == (2 * total + count) \div (2 * count)

RECURSIVE SumConfidence(_, _)
SumConfidence(blocks, i) ==
    IF i > Len(blocks) THEN 0
    ELSE blocks[i].confidence + SumConfidence(blocks, i + 1)

MostLikelyValue_last(values_found) == values_found[Len(values_found)]

\* value = values_found[0]
MostLikelyValue(values_found) == values_found[1]

AlreadyProcessed_never(test_type, processed_test_types) == FALSE

\* test_type not in processed_test_types, negated
AlreadyProcessed(test_type, processed_test_types) ==
    test_type \in processed_test_types

\* the record a row gives for its test type, as a list of zero or one record
RowRecord(row, test_type) ==
    LET read == [k \in 1..Len(row) |->
                    [block |-> row[k],
                     number |-> _extract_number(row[k].text),
                     unit |-> _extract_unit(row[k].text)]]
        HasValue(r) == r.number # PyNone /\ Plausible(test_type, r.number.n)
        HasUnit(r) == r.unit # PyNone
        valued == SelectSeq(read, HasValue)
        values_found == [i \in 1..Len(valued) |-> valued[i].number.n]
        with_unit == SelectSeq(read, HasUnit)
        units_found == [i \in 1..Len(with_unit) |-> with_unit[i].unit.s]
        avg_confidence == SumConfidence([i \in 1..Len(valued) |-> valued[i].block], 1)
        value == MostLikelyValue(values_found)
    IN IF values_found = <<>> THEN <<>>
       ELSE << [test_type |-> test_type,
                value |-> value,
                unit |-> IF units_found # <<>> THEN units_found[1]
                         ELSE _infer_unit(test_type, value),
                confidence |-> RoundedMean(avg_confidence, Len(values_found)),
                row_text |-> JoinTexts(row)] >>

\* for row in rows: ...; gives detected_values and processed_test_types
RECURSIVE RowPass(_, _, _, _)
RowPass(rows, i, detected_values, processed_test_types) ==
    IF i > Len(rows)
    THEN [detected_values |-> detected_values,
          processed_test_types |-> processed_test_types]
    ELSE LET test_type == _find_test_type(JoinTexts(rows[i]))
             found == IF test_type.kind = "str" /\ test_type.s # <<>>
                         /\ ~AlreadyProcessed(test_type.s, processed_test_types)
                      THEN RowRecord(rows[i], test_type.s)
                      ELSE <<>>
         IN RowPass(rows, i + 1, detected_values \o found,
                    IF found = <<>> THEN processed_test_types
                    ELSE processed_test_types \cup {test_type.s})

(***************************************************************************)
(* ocr_service.py: _fallback_extraction                                    *)
(***************************************************************************)
\* the keyword, read as a regular expression, matches s at index i: a '.'
\* of the keyword stands for any character but a newline
KeywordMatchesAt(s, keyword, i) ==
    /\ i + Len(keyword) - 1 <= Len(s)
    /\ \A j \in 1..Len(keyword) :
          \/ s[i + j - 1] = keyword[j]
          \/ keyword[j] = "." /\ s[i + j - 1] # "\n"

\* re.search(rf'{keyword}[^\d]*(\d+\.?\d*)', s): the number that follows
\* the leftmost place where the keyword matches and a digit comes after it
FallbackMatch(s, keyword) ==
    LET DigitAfter(i) == \E p \in (i + Len(keyword))..Len(s) : s[p] \in Digits
        starts == {i \in 1..Len(s) : KeywordMatchesAt(s, keyword, i) /\ DigitAfter(i)}
    IN IF starts = {} THEN PyNone
       ELSE LET i == CHOOSE a \in starts : \A b \in starts : a <= b
                p == CHOOSE a \in (i + Len(keyword))..Len(s) :
                        /\ s[a] \in Digits
                        /\ \A b \in (i + Len(keyword))..(a - 1) : s[b] \notin Digits
            IN PyNum(NumberAt(s, p))

FALLBACK_CONFIDENCE == 70

\* for keyword in keywords: ... break; zero or one record for the test type
RECURSIVE KeywordLoop(_, _, _, _)
KeywordLoop(full_text_lower, test_type, keywords, k) ==
    IF k > Len(keywords) THEN <<>>
    ELSE LET match == IF Contains(full_text_lower, keywords[k])
                      THEN FallbackMatch(full_text_lower, keywords[k])
                      ELSE PyNone
         IN IF match = PyNone \/ ~Plausible(test_type, match.n)
            THEN KeywordLoop(full_text_lower, test_type, keywords, k + 1)
            ELSE << [test_type |-> test_type,
                     value |-> match.n,
                     unit |-> _infer_unit(test_type, match.n),
                     confidence |-> FALLBACK_CONFIDENCE,
                     extraction_method |-> "fallback"] >>

RECURSIVE FallbackLoop(_, _, _)
FallbackLoop(full_text_lower, already_found, t) ==
    IF t > Len(OCRService_GLUCOSE_KEYWORDS) THEN <<>>
    ELSE (IF OCRService_GLUCOSE_KEYWORDS[t].test_type \in already_found THEN <<>>
          ELSE KeywordLoop(full_text_lower,
                           OCRService_GLUCOSE_KEYWORDS[t].test_type,
                           OCRService_GLUCOSE_KEYWORDS[t].keywords, 1))
         \o FallbackLoop(full_text_lower, already_found, t + 1)

_fallback_extraction(text_blocks, already_found) ==
    FallbackLoop(Lower(JoinTexts(text_blocks)), already_found, 1)

(***************************************************************************)
(* ocr_service.py: extract_glucose_values                                  *)
(***************************************************************************)
\* the result of extract_text_with_positions: the engine failed, or gave
\* these blocks
OcrFailure(error) == [success |-> FALSE, error |-> error, text_blocks |-> <<>>]
OcrSuccess(text_blocks) == [success |-> TRUE, text_blocks |-> text_blocks]

extract_glucose_values_both_passes(ocr_result) ==
    IF ~ocr_result.success
    THEN [raw_text |-> <<>>, detected_values |-> <<>>,
          extraction_success |-> FALSE, error |-> ocr_result.error]
    ELSE IF ocr_result.text_blocks = <<>>
    THEN [raw_text |-> <<>>, detected_values |-> <<>>,
          extraction_success |-> TRUE, message |-> "No text detected in image"]
    ELSE LET rows == group_by_rows(ocr_result.text_blocks, DEFAULT_Y_THRESHOLD)
             pass == RowPass(rows, 1, <<>>, {})
         IN [raw_text |-> JoinTexts(ocr_result.text_blocks),
             detected_values |->
                 pass.detected_values
                    \o _fallback_extraction(ocr_result.text_blocks,
                                            pass.processed_test_types),
             extraction_success |-> TRUE]

extract_glucose_values(ocr_result) ==
    IF ~ocr_result.success
    THEN [raw_text |-> <<>>, detected_values |-> <<>>,
          extraction_success |-> FALSE, error |-> ocr_result.error]
    ELSE IF ocr_result.text_blocks = <<>>
    THEN [raw_text |-> <<>>, detected_values |-> <<>>,
          extraction_success |-> TRUE, message |-> "No text detected in image"]
    ELSE LET rows == group_by_rows(ocr_result.text_blocks, DEFAULT_Y_THRESHOLD)
             pass == RowPass(rows, 1, <<>>, {})
         IN [raw_text |-> JoinTexts(ocr_result.text_blocks),
             detected_values |->
                 IF pass.detected_values = <<>>
                 THEN _fallback_extraction(ocr_result.text_blocks,
                                           pass.processed_test_types)
                 ELSE pass.detected_values,
             extraction_success |-> TRUE]

(***************************************************************************)
(* app.py: analyze_report, steps 4 and 5                                   *)
(***************************************************************************)
SUMMARY_DIABETES ==
    "Analysis complete. Some values are in the diabetes range. Please consult a healthcare provider."
SUMMARY_PREDIABETES ==
    "Analysis complete. Some values indicate prediabetes or need monitoring. Consider consulting a healthcare provider."
SUMMARY_NORMAL == "Analysis complete. Values appear to be within normal range."
SUMMARY_NONE == "Analysis complete. No classifiable glucose values found."

\* severity_levels = [c['classification'].get('severity', 'low') for c in classifications]
severity_levels(classifications) ==
    {classifications[i].classification.severity : i \in 1..Len(classifications)}

\* step 5: the summary sentence for the classifications kept by step 4
generate_summary(classifications) ==
    IF classifications # <<>>
    THEN IF "high" \in severity_levels(classifications) THEN SUMMARY_DIABETES
         ELSE IF "moderate" \in severity_levels(classifications) THEN SUMMARY_PREDIABETES
         ELSE SUMMARY_NORMAL
    ELSE SUMMARY_NONE

\* step 4: classify each detected value and keep the successes; an
\* exception of classify_glucose leaves the loop
RECURSIVE ClassifyDetected(_, _, _)
ClassifyDetected(detected_values, i, classifications) ==
    IF i > Len(detected_values)
    THEN [raised |-> "", classifications |-> classifications]
    ELSE LET value_info == detected_values[i]
             classification == classify_glucose(PyStr(value_info.test_type),
                                                PyNum(value_info.value),
                                                PyStr(value_info.unit))
         IN IF Raised(classification)
            THEN [raised |-> classification.raised, classifications |-> classifications]
            ELSE ClassifyDetected(detected_values, i + 1,
                    IF classification.success
                    THEN Append(classifications,
                                [detected |-> value_info,
                                 classification |-> classification])
                    ELSE classifications)

(***************************************************************************)
(* app.py: analyze_report, the upload and its removal                      *)
(***************************************************************************)
\* the names generate_unique_filename can give to an upload
UploadNames == {<<"u", DigitChars[k + 1]>> : k \in 1..MaxUploads}

\* generate_unique_filename: a name no file of the folder has
generate_unique_filename(folder) ==
    CHOOSE name \in UploadNames \ folder :
        \A other \in UploadNames \ folder :
            DigitValue(name[2]) <= DigitValue(other[2])

\* preprocess_image: the path of the copy it writes next to the upload
preprocessed_path(image_path) == Append(image_path, "_preprocessed.png")

\* mutant of cleanup_file: the file is left in the folder
cleanup_file_keeps(path, folder) == folder

\* cleanup_file(filepath): the upload folder afterwards
cleanup_file(path, folder) ==
    IF path.kind = "str" /\ path.s \in folder THEN folder \ {path.s} ELSE folder

\* the responses of the handler
OcrFailedResponse(result) ==
    [status |-> 400, success |-> FALSE, error |-> result.error]
NotGlucoseResponse(validation_result, text) ==
    [status |-> 200, success |-> FALSE, is_valid_report |-> FALSE,
     validation |-> validation_result, extracted_text |-> text]
NoValuesResponse(validation_result, text) ==
    [status |-> 200, success |-> TRUE, is_valid_report |-> TRUE,
     validation |-> validation_result, extracted_text |-> text,
     detected_values |-> <<>>, classifications |-> <<>>]
AnalysisResponse(validation_result, text, detected_values, classifications) ==
    [status |-> 200, success |-> TRUE, is_valid_report |-> TRUE,
     validation |-> validation_result, extracted_text |-> text,
     detected_values |-> detected_values, classifications |-> classifications,
     summary |-> generate_summary(classifications)]
ErrorResponse(error) ==
    [status |-> 500, success |-> FALSE, error |-> error]
BadRequestResponse(error) ==
    [status |-> 400, success |-> FALSE, error |-> error]

(***************************************************************************)
(* get_ocr_service, get_database_service, get_predictor                    *)
(***************************************************************************)
\* the three getters, each with its module-level instance
Services == {"get_ocr_service", "get_database_service", "get_predictor"}
Threads == 1..MaxCallers

(***************************************************************************)
(* Inputs explored                                                         *)
(***************************************************************************)
\* probe values in grid steps: 0, every band limit, the sanity ceilings, the
\* values of the API tests, and the mmol/L values whose product with 18
\* falls on a band limit or on the ceiling
ProbesMgdl == {0, 60, 70, 85, 99, 100, 105, 125, 126, 139, 150, 199, 200, 1000}
ProbesTenths == {39, 40, 45, 52, 55, 56, 64, 68, 69, 70, 77, 110, 200, 555, 600}
Probes == {p * GridPerUnit : p \in ProbesMgdl} \cup {p * GridPerTenth : p \in ProbesTenths}

s_abc == <<"a","b","c">>

ValueInputs ==
    {PyNum(p + d) : p \in Probes, d \in (0 - Delta)..Delta}
        \cup {PyNaN, PyNone, PyStr(s_abc)}

TestTypeInputs ==
    {PyStr(s_fasting), PyStr(s_hba1c), PyStr(s_ppbs), PyStr(s_rbs), PyStr(s_ogtt),
     PyStr(<<"F","a","s","t","i","n","g">>),
     PyStr(<<" ","H","b","A","1","c","\n">>),
     PyStr(<<"r"," ","b","s">>),
     PyStr(<<"i","n","v","a","l","i","d","_","t","y","p","e">>),
     PyStr(<<>>), PyNone, PyNum(5)}

UnitInputs ==
    {PyStr(s_mgdl), PyStr(<<"m","m","o","l","/","L">>),
     PyStr(<<"M","M","O","L","/","L">>), PyStr(s_mmol), PyStr(<<"M","m","o","l">>),
     PyStr(<<"m","m","o","l","L">>), PyStr(<<"m","m","o","l","/","L"," ">>),
     PyStr(s_percent), PyStr(<<>>), PyNone}

Reading(test_type, value, unit) ==
    [test_type |-> test_type, value |-> value, unit |-> unit]

ReadingInputs ==
    {Reading(PyStr(s_fasting), PyNum(105 * GridPerUnit), PyStr(s_mgdl)),
     Reading(PyStr(s_hba1c), PyNum(52 * GridPerTenth), PyStr(s_percent)),
     Reading(PyStr(s_rbs), PyNum(150 * GridPerUnit), PyStr(s_mgdl)),
     Reading(PyStr(s_ppbs), PyNum(200 * GridPerUnit), PyStr(s_mgdl)),
     Reading(PyStr(s_fasting), PyNum(7 * GridPerUnit), PyStr(<<"m","m","o","l","/","L">>)),
     Reading(PyStr(s_fasting), PyNum(60 * GridPerUnit), PyStr(s_mgdl)),
     Reading(PyStr(s_fasting), PyNum(90 * GridPerUnit), PyMissing),
     Reading(PyStr(s_ogtt), PyMissing, PyStr(s_mgdl)),
     Reading(PyStr(s_fasting), PyNaN, PyStr(s_mgdl)),
     Reading(PyStr(<<"i","n","v","a","l","i","d","_","t","y","p","e">>),
             PyNum(100 * GridPerUnit), PyStr(s_mgdl)),
     Reading(PyMissing, PyNum(100 * GridPerUnit), PyStr(s_mgdl)),
     Reading(PyStr(s_fasting), PyNum(0 - GridPerUnit), PyStr(s_mgdl)),
     Reading(PyStr(s_fasting), PyNum(2000 * GridPerUnit), PyStr(s_mgdl)),
     Reading(PyStr(s_fasting), PyStr(s_abc), PyStr(s_mgdl)),
     Reading(PyStr(s_fasting), PyNum(90 * GridPerUnit), PyNone),
     Reading(PyNone, PyNum(90 * GridPerUnit), PyStr(s_mgdl))}

BlockInputs ==
    {TextBlock("105", y, x) : y \in 0..MaxCoord, x \in 0..1}

RECURSIVE SeqsUpTo(_, _)
SeqsUpTo(S, n) ==
    IF n = 0 THEN {<<>>}
    ELSE LET shorter == SeqsUpTo(S, n - 1)
         IN shorter \cup {Append(q, e) : q \in {r \in shorter : Len(r) = n - 1}, e \in S}

\* phrases of recognised text: "RBS 140", "Blood  Sugar", "hdl ldl",
\* "wbc\nrbc", "tsh 2", and, inside whole texts only, "hba1c 5.5%" and
\* "fasting blood sugar 105 mg/dl"
t_rbs == <<"R","B","S"," ","1","4","0">>
t_hba1c == <<"h","b","a","1","c"," ","5",".","5","%">>
t_sugar == <<"B","l","o","o","d"," "," ","S","u","g","a","r">>
t_lipid == <<"h","d","l"," ","l","d","l">>
t_cbc == <<"w","b","c","\n","r","b","c">>
t_tsh == <<"t","s","h"," ","2">>
t_fasting == <<"f","a","s","t","i","n","g"," ","b","l","o","o","d"," ",
               "s","u","g","a","r"," ","1","0","5"," ","m","g","/","d","l">>

PhraseInputs == {t_rbs, t_sugar, t_lipid, t_cbc, t_tsh}

\* whole texts: "hemoglobin 13.5 wbc 7200 platelet 250000",
\* "total cholesterol hdl cholesterol ldl cholesterol triglycerides 150",
\* "glycohemoglobin", "the lab report", the fasting phrase alone and with
\* the hba1c phrase on the next line, and texts of whitespace only
x_hemoglobin == <<"h","e","m","o","g","l","o","b","i","n"," ","1","3",".","5"," ",
                  "w","b","c"," ","7","2","0","0"," ",
                  "p","l","a","t","e","l","e","t"," ","2","5","0","0","0","0">>
x_lipid == <<"t","o","t","a","l"," ","c","h","o","l","e","s","t","e","r","o","l"," ",
             "h","d","l"," ","c","h","o","l","e","s","t","e","r","o","l"," ",
             "l","d","l"," ","c","h","o","l","e","s","t","e","r","o","l"," ",
             "t","r","i","g","l","y","c","e","r","i","d","e","s"," ","1","5","0">>
x_glyco == <<"g","l","y","c","o","h","e","m","o","g","l","o","b","i","n">>
x_three == <<"t","h","e"," ","l","a","b"," ","r","e","p","o","r","t">>

WholeTextInputs ==
    {x_hemoglobin, x_lipid, x_glyco, x_three,
     t_fasting, t_hba1c,
     t_fasting \o <<"\n">> \o t_hba1c, t_hba1c \o <<"\n">> \o t_fasting,
     <<" ">>, <<" ", "\n", "\t">>}

\* the texts handed to the report classifier: None, the whole texts, and
\* up to MaxPhrases phrases on one line
TextInputs ==
    {PyNone} \cup {PyStr(s) : s \in WholeTextInputs}
        \cup {PyStr(JoinWithSpace(ps)) : ps \in SeqsUpTo(PhraseInputs, MaxPhrases)}

\* the texts handed to the quality gate: None, and k words of which the
\* d-th, if any, is a number
QualityText(k, d) ==
    JoinWithSpace([j \in 1..k |-> IF j = d THEN <<"7">> ELSE <<"a","b">>])

QualityInputs ==
    {PyNone} \cup {PyStr(QualityText(k, d)) : k \in 0..MaxQualityWords, d \in 0..2}


\* phrases naming a test type: "fbs", "rbs 140", "ppbs",
\* "glucose tolerance test"
d_fbs == <<"f","b","s">>
d_ppbs == <<"p","p","b","s">>
d_ogtt == <<"g","l","u","c","o","s","e"," ","t","o","l","e","r","a","n","c","e"," ",
            "t","e","s","t">>
TypePhraseInputs == {d_fbs, t_rbs, d_ppbs, d_ogtt}

\* the texts handed to detect_report_type: those of the classifier, and up
\* to MaxPhrases test-type phrases on one line
DetectInputs ==
    TextInputs
        \cup {PyStr(JoinWithSpace(ps)) : ps \in SeqsUpTo(TypePhraseInputs, MaxPhrases)}
\* block texts: "Page 2 of 5", "Fasting", "105", "900", "HbA1c", "5.5 %",
\* "HbA1c 5.5 %", "FBS 95 mg/dL"
b_page == <<"P","a","g","e"," ","2"," ","o","f"," ","5">>
b_fasting == <<"F","a","s","t","i","n","g">>
b_105 == <<"1","0","5">>
b_900 == <<"9","0","0">>
b_hba1c == <<"H","b","A","1","c">>
b_55 == <<"5",".","5"," ","%">>
b_hba1c_55 == <<"H","b","A","1","c"," ","5",".","5"," ","%">>
b_fbs_95 == <<"F","B","S"," ","9","5"," ","m","g","/","d","L">>
b_rbs_140 == <<"R","B","S"," ","1","4","0">>

\* three lines of a page, more than the row threshold apart, and three
\* columns
ROW_A == 100
ROW_B == 140
ROW_C == 180
COL_1 == 10
COL_2 == 60
COL_3 == 110

\* the blocks the engine can report: line A reads "Page 2 of 5" or "900",
\* "Fasting", "105"; line B reads "105", "HbA1c" or "HbA1c 5.5 %", "5.5 %";
\* line C reads "FBS 95 mg/dL", "RBS 140"
ExtractBlockInputs ==
    {OcrBlock(b_page, 96, ROW_A, COL_1),
     OcrBlock(b_900, 88, ROW_A, COL_1),
     OcrBlock(b_fasting, 96, ROW_A, COL_2),
     OcrBlock(b_105, 88, ROW_A, COL_3),
     OcrBlock(b_105, 80, ROW_B, COL_1),
     OcrBlock(b_hba1c, 96, ROW_B, COL_2),
     OcrBlock(b_hba1c_55, 88, ROW_B, COL_2),
     OcrBlock(b_55, 88, ROW_B, COL_3),
     OcrBlock(b_fbs_95, 80, ROW_C, COL_1),
     OcrBlock(b_rbs_140, 80, ROW_C, COL_2)}

\* what extract_text_with_positions hands to the extractor
OcrInputs ==
    {OcrFailure("OCR processing error")}
        \cup {OcrSuccess(bs) : bs \in SeqsUpTo(ExtractBlockInputs, MaxExtractBlocks)}

\* what the engine reads on the images uploaded to /api/analyze: blocks
\* out of "Page 2 of 5", "Fasting", "105" and "HbA1c" or "HbA1c 5.5 %" one
\* line below, "RBS 140"
AnalyzeBlockInputs ==
    {OcrBlock(b_page, 96, ROW_A, COL_1),
     OcrBlock(b_fasting, 96, ROW_A, COL_2),
     OcrBlock(b_105, 80, ROW_B, COL_1),
     OcrBlock(b_hba1c, 96, ROW_B, COL_2),
     OcrBlock(b_hba1c_55, 88, ROW_B, COL_2),
     OcrBlock(b_rbs_140, 80, ROW_C, COL_2)}

AnalyzeInputs ==
    {OcrFailure("OCR processing error")}
        \cup {OcrSuccess(bs) : bs \in SeqsUpTo(AnalyzeBlockInputs, MaxAnalyzeBlocks)}

(***************************************************************************)
(* State: the call in progress (op and its arguments) and what it gave.    *)
(* The functions keep no state between calls: a call starts from the idle  *)
(* state and Return hands the result over and goes back to it.             *)
(***************************************************************************)
VARIABLES op, test_type, value, unit, readings, text_blocks, y_threshold,
          extracted_text, ocr_result, ret,
          stage, filepath, frame, uploads,
          singleton, constructed, callers

vars == <<op, test_type, value, unit, readings, text_blocks, y_threshold,
          extracted_text, ocr_result, ret,
          stage, filepath, frame, uploads,
          singleton, constructed, callers>>

\* the state of the /api/analyze handler and of the upload folder, and the
\* state of the service singletons and of the threads asking for them
handler_vars == <<stage, filepath, frame, uploads>>
singleton_vars == <<singleton, constructed, callers>>

NoArg == PyMissing

Init ==
    /\ op = "none"
    /\ test_type = NoArg /\ value = NoArg /\ unit = NoArg
    /\ readings = <<>>
    /\ text_blocks = <<>> /\ y_threshold = 0
    /\ extracted_text = NoArg /\ ocr_result = NoArg
    /\ ret = [none |-> TRUE]
    /\ stage = "idle" /\ filepath = PyNone /\ frame = [none |-> TRUE]
    /\ uploads = {}
    /\ singleton = [s \in Services |-> 0]
    /\ constructed = [s \in Services |-> 0]
    /\ callers = [t \in Threads |->
                    [pc |-> "idle", service |-> "", made |-> 0, got |-> 0]]

\* a client calls classify_glucose(t, v, u)
ClassifyGlucose ==
    /\ op = "none"
    /\ \E t \in TestTypeInputs, v \in ValueInputs, u \in UnitInputs :
        /\ op' = "classify_glucose"
        /\ test_type' = t /\ value' = v /\ unit' = u
        /\ ret' = classify_glucose(t, v, u)
        /\ readings' = <<>> /\ text_blocks' = <<>> /\ y_threshold' = 0
        /\ extracted_text' = NoArg /\ ocr_result' = NoArg
        /\ UNCHANGED <<handler_vars, singleton_vars>>

\* a client calls classify_multiple(rs)
ClassifyMultiple ==
    /\ op = "none"
    /\ \E rs \in SeqsUpTo(ReadingInputs, MaxReadings) :
        /\ op' = "classify_multiple"
        /\ readings' = rs
        /\ ret' = classify_multiple(rs)
        /\ test_type' = NoArg /\ value' = NoArg /\ unit' = NoArg
        /\ text_blocks' = <<>> /\ y_threshold' = 0
        /\ extracted_text' = NoArg /\ ocr_result' = NoArg
        /\ UNCHANGED <<handler_vars, singleton_vars>>

\* the extractor calls self._group_by_rows(bs, th)
GroupByRows ==
    /\ op = "none"
    /\ \E bs \in SeqsUpTo(BlockInputs, MaxBlocks), th \in (0 - 1)..MaxThreshold :
        /\ op' = "group_by_rows"
        /\ text_blocks' = bs /\ y_threshold' = th
        /\ ret' = group_by_rows(bs, th)
        /\ test_type' = NoArg /\ value' = NoArg /\ unit' = NoArg
        /\ readings' = <<>>
        /\ extracted_text' = NoArg /\ ocr_result' = NoArg
        /\ UNCHANGED <<handler_vars, singleton_vars>>

\* the pipeline calls validate_glucose_report(text)
ValidateGlucoseReport ==
    /\ op = "none"
    /\ \E t \in TextInputs :
        /\ op' = "validate_glucose_report"
        /\ extracted_text' = t
        /\ ret' = validate_glucose_report(t)
        /\ test_type' = NoArg /\ value' = NoArg /\ unit' = NoArg
        /\ readings' = <<>> /\ text_blocks' = <<>> /\ y_threshold' = 0
        /\ ocr_result' = NoArg
        /\ UNCHANGED <<handler_vars, singleton_vars>>

\* the pipeline calls validate_image_text_quality(text)
ValidateImageTextQuality ==
    /\ op = "none"
    /\ \E t \in QualityInputs \cup TextInputs :
        /\ op' = "validate_image_text_quality"
        /\ extracted_text' = t
        /\ ret' = validate_image_text_quality(t)
        /\ test_type' = NoArg /\ value' = NoArg /\ unit' = NoArg
        /\ readings' = <<>> /\ text_blocks' = <<>> /\ y_threshold' = 0
        /\ ocr_result' = NoArg
        /\ UNCHANGED <<handler_vars, singleton_vars>>

\* the pipeline calls comprehensive_validation(text)
ComprehensiveValidation ==
    /\ op = "none"
    /\ \E t \in TextInputs :
        /\ op' = "comprehensive_validation"
        /\ extracted_text' = t
        /\ ret' = comprehensive_validation(t)
        /\ test_type' = NoArg /\ value' = NoArg /\ unit' = NoArg
        /\ readings' = <<>> /\ text_blocks' = <<>> /\ y_threshold' = 0
        /\ ocr_result' = NoArg
        /\ UNCHANGED <<handler_vars, singleton_vars>>

\* a caller asks detect_report_type(text)
DetectReportType ==
    /\ op = "none"
    /\ \E t \in DetectInputs :
        /\ op' = "detect_report_type"
        /\ extracted_text' = t
        /\ ret' = detect_report_type(t)
        /\ test_type' = NoArg /\ value' = NoArg /\ unit' = NoArg
        /\ readings' = <<>> /\ text_blocks' = <<>> /\ y_threshold' = 0
        /\ ocr_result' = NoArg
        /\ UNCHANGED <<handler_vars, singleton_vars>>

\* the pipeline calls extract_glucose_values(image); the engine's answer for
\* the image is r
ExtractGlucoseValues ==
    /\ op = "none"
    /\ \E r \in OcrInputs :
        /\ op' = "extract_glucose_values"
        /\ ocr_result' = r
        /\ ret' = extract_glucose_values(r)
        /\ test_type' = NoArg /\ value' = NoArg /\ unit' = NoArg
        /\ readings' = <<>> /\ text_blocks' = <<>> /\ y_threshold' = 0
        /\ extracted_text' = NoArg
        /\ UNCHANGED <<handler_vars, singleton_vars>>

\* /api/analyze refuses a request that carries no usable file; nothing is
\* saved
AnalyzeReject ==
    /\ op = "none"
    /\ \E error \in {"No file part in request", "No file selected",
                     "File type not allowed"} :
        /\ op' = "analyze_report"
        /\ stage' = "return"
        /\ ret' = BadRequestResponse(error)
        /\ UNCHANGED <<test_type, value, unit, readings, text_blocks, y_threshold,
                       extracted_text, ocr_result, filepath, frame, uploads>>
        /\ UNCHANGED singleton_vars

\* /api/analyze saves the upload under a fresh name; r is what the OCR
\* engine reads on the image
AnalyzeSave ==
    /\ op = "none"
    /\ UploadNames \ uploads # {}
    /\ \E r \in AnalyzeInputs :
        /\ op' = "analyze_report"
        /\ filepath' = PyStr(generate_unique_filename(uploads))
        /\ uploads' = uploads \cup {generate_unique_filename(uploads)}
        /\ ocr_result' = r
        /\ stage' = "saved"
        /\ UNCHANGED <<test_type, value, unit, readings, text_blocks, y_threshold,
                       extracted_text, ret, frame>>
        /\ UNCHANGED singleton_vars

\* file.save raises, after writing some of the file or none of it
AnalyzeSaveFails ==
    /\ op = "none"
    /\ UploadNames \ uploads # {}
    /\ \E written \in BOOLEAN :
        /\ op' = "analyze_report"
        /\ filepath' = PyStr(generate_unique_filename(uploads))
        /\ uploads' = IF written
                      THEN uploads \cup {generate_unique_filename(uploads)}
                      ELSE uploads
        /\ stage' = "except"
        /\ UNCHANGED <<test_type, value, unit, readings, text_blocks, y_threshold,
                       extracted_text, ocr_result, ret, frame>>
        /\ UNCHANGED singleton_vars

\* step 1: extract_glucose_values(filepath); on failure the file is removed
\* and the 400 response is ready.  The engine works on a preprocessed copy
\* and removes it afterwards; when the engine raises, the copy stays.
AnalyzeExtract ==
    /\ op = "analyze_report" /\ stage = "saved"
    /\ \E result \in {extract_glucose_values(ocr_result)} :
          IF ~result.extraction_success
          THEN /\ \E copy_left \in BOOLEAN :
                    uploads' = cleanup_file(filepath,
                                  IF copy_left
                                  THEN uploads \cup {preprocessed_path(filepath.s)}
                                  ELSE uploads)
               /\ ret' = OcrFailedResponse(result)
               /\ stage' = "return"
               /\ UNCHANGED frame
          ELSE /\ frame' = [ocr_result |-> result, extracted_text |-> result.raw_text]
               /\ stage' = "extracted"
               /\ UNCHANGED <<uploads, ret>>
    /\ UNCHANGED <<op, test_type, value, unit, readings, text_blocks, y_threshold,
                   extracted_text, ocr_result, filepath>>
    /\ UNCHANGED singleton_vars

\* step 2: comprehensive_validation(extracted_text); a text that is no
\* glucose report ends the request
AnalyzeValidate ==
    /\ op = "analyze_report" /\ stage = "extracted"
    /\ \E validation_result \in {comprehensive_validation(PyStr(frame.extracted_text))} :
          IF ~validation_result.is_valid
          THEN /\ uploads' = cleanup_file(filepath, uploads)
               /\ ret' = NotGlucoseResponse(validation_result, frame.extracted_text)
               /\ stage' = "return"
               /\ UNCHANGED frame
          ELSE /\ frame' = [ocr_result |-> frame.ocr_result,
                            extracted_text |-> frame.extracted_text,
                            validation_result |-> validation_result]
               /\ stage' = "validated"
               /\ UNCHANGED <<uploads, ret>>
    /\ UNCHANGED <<op, test_type, value, unit, readings, text_blocks, y_threshold,
                   extracted_text, ocr_result, filepath>>
    /\ UNCHANGED singleton_vars

\* steps 3 to 5: the detected values are classified and summarised, the file
\* is removed and the response is ready
AnalyzeClassify ==
    /\ op = "analyze_report" /\ stage = "validated"
    /\ \E loop \in {ClassifyDetected(frame.ocr_result.detected_values, 1, <<>>)} :
       LET detected_values == frame.ocr_result.detected_values
       IN IF detected_values = <<>>
          THEN /\ uploads' = cleanup_file(filepath, uploads)
               /\ ret' = NoValuesResponse(frame.validation_result, frame.extracted_text)
               /\ stage' = "return"
          ELSE IF loop.raised # ""
          THEN /\ stage' = "except"
               /\ UNCHANGED <<uploads, ret>>
          ELSE /\ uploads' = cleanup_file(filepath, uploads)
               /\ ret' = AnalysisResponse(frame.validation_result, frame.extracted_text,
                                          detected_values, loop.classifications)
               /\ stage' = "return"
    /\ UNCHANGED <<op, test_type, value, unit, readings, text_blocks, y_threshold,
                   extracted_text, ocr_result, filepath, frame>>
    /\ UNCHANGED singleton_vars

\* a step of the handler raises (the OCR engine, the response encoder)
AnalyzeRaise ==
    /\ op = "analyze_report" /\ stage \in {"saved", "extracted", "validated"}
    /\ stage' = "except"
    /\ UNCHANGED <<op, test_type, value, unit, readings, text_blocks, y_threshold,
                   extracted_text, ocr_result, ret, filepath, frame, uploads>>
    /\ UNCHANGED singleton_vars

\* except Exception: the file is removed and the 500 response is ready
AnalyzeExcept ==
    /\ op = "analyze_report" /\ stage = "except"
    /\ uploads' = cleanup_file(filepath, uploads)
    /\ ret' = ErrorResponse("exception")
    /\ stage' = "return"
    /\ UNCHANGED <<op, test_type, value, unit, readings, text_blocks, y_threshold,
                   extracted_text, ocr_result, filepath, frame>>
    /\ UNCHANGED singleton_vars

\* a request thread calls one of the getters and tests "if instance is
\* None"
GetService ==
    \E t \in Threads, s \in Services :
        /\ callers[t].pc = "idle"
        /\ callers' = [callers EXCEPT ![t] =
                          [pc |-> IF singleton[s] = 0 THEN "construct" ELSE "return",
                           service |-> s, made |-> 0, got |-> 0]]
        /\ UNCHANGED <<singleton, constructed>>
        /\ UNCHANGED <<op, test_type, value, unit, readings, text_blocks, y_threshold,
                       extracted_text, ocr_result, ret>>
        /\ UNCHANGED handler_vars

\* the thread that saw None constructs an instance
ConstructService ==
    \E t \in Threads :
        /\ callers[t].pc = "construct"
        /\ constructed' = [constructed EXCEPT ![callers[t].service] = @ + 1]
        /\ callers' = [callers EXCEPT ![t].pc = "assign",
                                      ![t].made = constructed[callers[t].service] + 1]
        /\ UNCHANGED singleton
        /\ UNCHANGED <<op, test_type, value, unit, readings, text_blocks, y_threshold,
                       extracted_text, ocr_result, ret>>
        /\ UNCHANGED handler_vars

\* and assigns it to the module-level name
AssignService ==
    \E t \in Threads :
        /\ callers[t].pc = "assign"
        /\ singleton' = [singleton EXCEPT ![callers[t].service] = callers[t].made]
        /\ callers' = [callers EXCEPT ![t].pc = "return"]
        /\ UNCHANGED constructed
        /\ UNCHANGED <<op, test_type, value, unit, readings, text_blocks, y_threshold,
                       extracted_text, ocr_result, ret>>
        /\ UNCHANGED handler_vars

\* return instance: the caller receives what the module-level name holds now
ReturnService ==
    \E t \in Threads :
        /\ callers[t].pc = "return"
        /\ callers' = [callers EXCEPT ![t].pc = "done",
                                      ![t].got = singleton[callers[t].service]]
        /\ UNCHANGED <<singleton, constructed>>
        /\ UNCHANGED <<op, test_type, value, unit, readings, text_blocks, y_threshold,
                       extracted_text, ocr_result, ret>>
        /\ UNCHANGED handler_vars

\* the caller takes the result (or the exception), the client of
\* /api/analyze its response; nothing is kept but the upload folder and the
\* service instances
Return ==
    /\ op # "none"
    /\ op = "analyze_report" => stage = "return"
    /\ op' = "none"
    /\ test_type' = NoArg /\ value' = NoArg /\ unit' = NoArg
    /\ readings' = <<>>
    /\ text_blocks' = <<>> /\ y_threshold' = 0
    /\ extracted_text' = NoArg /\ ocr_result' = NoArg
    /\ ret' = [none |-> TRUE]
    /\ stage' = "idle" /\ filepath' = PyNone /\ frame' = [none |-> TRUE]
    /\ UNCHANGED uploads
    /\ UNCHANGED singleton_vars

Next ==
    \/ ClassifyGlucose \/ ClassifyMultiple \/ GroupByRows
    \/ ValidateGlucoseReport \/ ValidateImageTextQuality
    \/ ComprehensiveValidation \/ DetectReportType
    \/ ExtractGlucoseValues
    \/ AnalyzeReject \/ AnalyzeSave \/ AnalyzeSaveFails \/ AnalyzeExtract
    \/ AnalyzeValidate \/ AnalyzeClassify \/ AnalyzeRaise \/ AnalyzeExcept
    \/ GetService \/ ConstructService \/ AssignService \/ ReturnService
    \/ Return

Spec == Init /\ [][Next]_vars

\* the ladder alone, and the row clusterer alone
NextLadder == ClassifyGlucose \/ ClassifyMultiple \/ Return
SpecLadder == Init /\ [][NextLadder]_vars
NextRows == GroupByRows \/ Return
SpecRows == Init /\ [][NextRows]_vars
\* the report validator alone
NextValidation ==
    \/ ValidateGlucoseReport \/ ValidateImageTextQuality
    \/ ComprehensiveValidation \/ Return
SpecValidation == Init /\ [][NextValidation]_vars
\* the test-type detector alone
NextReportType == DetectReportType \/ Return
SpecReportType == Init /\ [][NextReportType]_vars
\* the value extractor alone
NextExtract == ExtractGlucoseValues \/ Return
SpecExtract == Init /\ [][NextExtract]_vars
\* the /api/analyze handler alone
NextAnalyze ==
    \/ AnalyzeReject \/ AnalyzeSave \/ AnalyzeSaveFails \/ AnalyzeExtract
    \/ AnalyzeValidate \/ AnalyzeClassify \/ AnalyzeRaise \/ AnalyzeExcept
    \/ Return
SpecAnalyze == Init /\ [][NextAnalyze]_vars
\* the threads asking for the service instances alone
NextSingleton == GetService \/ ConstructService \/ AssignService \/ ReturnService
SpecSingleton == Init /\ [][NextSingleton]_vars

(***************************************************************************)
(* Properties of classify_glucose                                          *)
(***************************************************************************)
InGlucose == op = "classify_glucose"
Succeeded == InGlucose /\ ~Raised(ret) /\ ret.success
FiveTypes == {s_fasting, s_hba1c, s_ppbs, s_rbs, s_ogtt}

\* the test type as the ladder reads it: lower-cased and stripped
NormType == IF test_type.kind = "str" THEN Strip(Lower(test_type.s)) ELSE <<>>

\* the value in the canonical unit, before the result rounds it for display
Canonical == convert_to_mgdl(value, unit, NormType).value

\* band i is the first band of the list whose max is >= v
FirstBandAt(ranges, i, v) ==
    /\ v.kind = "num"
    /\ ranges[i].unbounded \/ ranges[i].max >= v.n
    /\ \A j \in 1..(i - 1) : ~ranges[j].unbounded /\ ranges[j].max < v.n

IsCall(t, n, u) ==
    InGlucose /\ test_type = PyStr(t) /\ value = PyNum(n) /\ unit = PyStr(u)

\* C1: a successful classify_glucose carries the classification and severity
\* of the first band of the test type's list whose max is >= the canonical
\* value; fasting mg/dL 99 and 85 are Normal, 100, 105 and 125 Prediabetes,
\* 126 Diabetes, and hba1c 6.8 is Diabetes.
C1_FirstBandWins ==
    /\ Succeeded =>
         \A i \in 1..Len(THRESHOLDS[NormType].ranges) :
            FirstBandAt(THRESHOLDS[NormType].ranges, i, Canonical) =>
               /\ ret.classification = THRESHOLDS[NormType].ranges[i].classification
               /\ ret.severity = THRESHOLDS[NormType].ranges[i].severity
    /\ \A n \in {85, 99} :
         IsCall(s_fasting, n * GridPerUnit, s_mgdl) => Succeeded /\ ret.classification = "Normal"
    /\ \A n \in {100, 105, 125} :
         IsCall(s_fasting, n * GridPerUnit, s_mgdl) => Succeeded /\ ret.classification = "Prediabetes"
    /\ IsCall(s_fasting, 126 * GridPerUnit, s_mgdl) => Succeeded /\ ret.classification = "Diabetes"
    /\ IsCall(s_hba1c, 68 * GridPerTenth, s_percent) => Succeeded /\ ret.classification = "Diabetes"

\* C1 witness: fasting 125 mg/dL, on a band limit, came back Prediabetes
C1_Witness ==
    IsCall(s_fasting, 125 * GridPerUnit, s_mgdl) /\ Succeeded
        /\ ret.classification = "Prediabetes"

\* what a caller can tell apart in the outcome of classify_glucose
Outcome(r) ==
    IF Raised(r) THEN [kind |-> "raised"]
    ELSE IF ~r.success THEN [kind |-> "error"]
    ELSE [kind |-> "success", value |-> r.value, unit |-> r.unit,
          classification |-> r.classification, severity |-> r.severity,
          range |-> r.range]

\* C2: for a non-hba1c test type, classify_glucose(t, v, "mmol/L") has the
\* same outcome (success or error, canonical value and unit, classification,
\* severity, range) as classify_glucose(t, v*18, "mg/dL").
C2_UnitRoundTrip ==
    (/\ InGlucose /\ NormType \in FiveTypes \ {s_hba1c}
     /\ value.kind = "num" /\ unit = PyStr(<<"m","m","o","l","/","L">>))
    => Outcome(ret) = Outcome(classify_glucose(test_type, Times(value, MMOL_TO_MGDL),
                                               PyStr(s_mgdl)))

\* the band list of every test type: strictly increasing max, last unbounded
LaddersWellFormed ==
    \A t \in DOMAIN THRESHOLDS :
        LET r == THRESHOLDS[t].ranges
        IN /\ r[Len(r)].unbounded
           /\ \A i \in 1..(Len(r) - 1) : ~r[i].unbounded
           /\ \A i \in 1..(Len(r) - 2) : r[i].max < r[i + 1].max

BandLabels(t) ==
    {THRESHOLDS[t].ranges[i].classification : i \in 1..Len(THRESHOLDS[t].ranges)}

\* C3: the band lists are strictly increasing with an unbounded last band,
\* and a successful classify_glucose result carries one of the configured
\* band labels, never the 'Unknown' / 'unknown' fallback.
C3_NeverUnknown ==
    /\ LaddersWellFormed
    /\ Succeeded =>
         /\ ret.classification \in BandLabels(NormType)
         /\ ret.classification # "Unknown" /\ ret.severity # "unknown"

\* the inputs validation is to reject
Rejectable ==
    \/ NormType \notin FiveTypes
    \/ ~IsNumber(value)
    \/ Lt(value, 0)
    \/ Gt(value, IF NormType = s_hba1c THEN 20 * GridPerUnit ELSE 1000 * GridPerUnit)

\* C4: classify_glucose answers every input whose test type is not one of
\* the five types, or whose value is not numeric, negative or above the
\* sanity ceiling (20 for hba1c, 1000 otherwise), with a structured error:
\* success = false, a reason, and no other field.
C4_RejectsStructured ==
    (InGlucose /\ Rejectable) =>
        /\ ~Raised(ret)
        /\ DOMAIN ret = {"success", "error"}
        /\ ret.success = FALSE /\ ret.error # ""

\* the unit string spells mmol/L in some letter case, with or without the
\* slash (the bare 'mmol' counted too)
SpellsMmolL(u) ==
    u.kind = "str" /\ Lower(u.s) \in {s_mmoll, <<"m","m","o","l","l">>, s_mmol}

\* the unit string is 'mmol/l' or 'mmol' in some letter case
IsMmolToken(u) ==
    u.kind = "str" /\ Lower(u.s) \in {s_mmoll, s_mmol}

UnitRule(isMmol) ==
    Succeeded =>
        /\ (ret.unit = s_percent) <=> (NormType = s_hba1c)
        /\ ret.unit \in {s_percent, s_mgdl}
        /\ NormType = s_hba1c => ret.value = Round1(value)
        /\ (NormType # s_hba1c /\ isMmol) =>
               ret.value = Round1(Times(value, MMOL_TO_MGDL))
        /\ (NormType # s_hba1c /\ ~isMmol) => ret.value = Round1(value)

\* C5 as stated: hba1c is never converted and has unit '%'; otherwise a unit
\* spelling mmol/L in any letter case, with or without the slash, gives
\* value*18 in mg/dL and any other unit string leaves the value unchanged in
\* mg/dL (the result shows the value rounded to one decimal).
C5_Original == UnitRule(SpellsMmolL(unit))

\* C5 amended: the units converted are exactly the strings equal to 'mmol/l'
\* or 'mmol' when lower-cased; every other unit string ('mmolL' without the
\* slash and 'mmol/L ' with a blank included) leaves the value unchanged.
C5_UnitNormalization == UnitRule(IsMmolToken(unit))

\* C5 witness: 7 MMOL/L, in upper case, came back as 126 mg/dL
C5_Witness ==
    /\ Succeeded
    /\ NormType = s_fasting /\ unit = PyStr(<<"M","M","O","L","/","L">>)
    /\ value = PyNum(7 * GridPerUnit) /\ ret.value = PyNum(126 * GridPerUnit)
    /\ ret.unit = s_mgdl

(***************************************************************************)
(* Properties of classify_multiple                                         *)
(***************************************************************************)
InBatch == op = "classify_multiple"
BatchReturned == InBatch /\ ~Raised(ret)

ArgOf(reading) ==
    [test_type |-> DictGet(reading, "test_type", PyStr(<<>>)),
     value |-> DictGet(reading, "value", PyNum(0)),
     unit |-> DictGet(reading, "unit", PyStr(s_mgdl))]

\* a reading that cannot be classified: unknown, missing or non-string test
\* type, non-numeric, negative or out-of-range value, null unit
Unclassifiable(reading) ==
    LET a == ArgOf(reading)
        t == IF a.test_type.kind = "str" THEN Strip(Lower(a.test_type.s)) ELSE <<>>
    IN \/ t \notin FiveTypes
       \/ ~IsNumber(a.value)
       \/ Lt(a.value, 0)
       \/ Gt(a.value, IF t = s_hba1c THEN 20 * GridPerUnit ELSE 1000 * GridPerUnit)
       \/ a.unit.kind = "none"

\* C6: classify_multiple classifies every reading on its own: results has
\* one entry per reading, in input order, total_readings is the number of
\* readings, and a reading that cannot be classified gives a failure entry at
\* its position without keeping the others from being classified.
C6_BatchIndependent ==
    InBatch =>
        /\ ~Raised(ret)
        /\ Len(ret.results) = Len(readings)
        /\ ret.summary.total_readings = Len(readings)
        /\ \A i \in 1..Len(readings) :
              /\ Unclassifiable(readings[i]) => ret.results[i].success = FALSE
              /\ ~Unclassifiable(readings[i]) =>
                    /\ ret.results[i].success
                    /\ ret.results[i].original_value = ArgOf(readings[i]).value

\* some successfully classified reading of the batch has a label of L
SomeClassified(L) ==
    \E i \in 1..Len(ret.results) :
        ret.results[i].success /\ ret.results[i].classification \in L

\* C7: overall_severity is 'high' iff some successfully classified reading is
\* 'Diabetes'; otherwise 'moderate' iff some is 'Prediabetes' or 'Needs
\* Monitoring'; otherwise 'low'.  [(fasting,105,mg/dL),(hba1c,5.2,%)] gives
\* 'moderate' with total_readings = 2.
C7_BatchAggregate ==
    /\ BatchReturned =>
         LET sev == ret.summary.overall_severity
         IN /\ sev \in {"high", "moderate", "low"}
            /\ (sev = "high") <=> SomeClassified({"Diabetes"})
            /\ (sev = "moderate") <=>
                  (~SomeClassified({"Diabetes"})
                     /\ SomeClassified({"Prediabetes", "Needs Monitoring"}))
    /\ (InBatch /\ readings =
            << Reading(PyStr(s_fasting), PyNum(105 * GridPerUnit), PyStr(s_mgdl)),
               Reading(PyStr(s_hba1c), PyNum(52 * GridPerTenth), PyStr(s_percent)) >>)
       => (/\ ~Raised(ret)
           /\ ret.summary.overall_severity = "moderate"
           /\ ret.summary.total_readings = 2)

\* C7 witness: a batch with both a Diabetes and a Prediabetes reading was
\* reported 'high'
C7_Witness ==
    /\ BatchReturned
    /\ SomeClassified({"Diabetes"}) /\ SomeClassified({"Prediabetes"})
    /\ ret.summary.overall_severity = "high"

\* C8: no entry point raises: classify_glucose and classify_multiple return a
\* structured result for every input, a non-string test type and a null unit
\* included.
C8_NeverRaises ==
    (InGlucose \/ InBatch) => ~Raised(ret)

(***************************************************************************)
(* Properties of _group_by_rows                                            *)
(***************************************************************************)
InRows == op = "group_by_rows"

\* how many times block b occurs in the sequence of blocks
Occurrences(seq, b) == Cardinality({i \in 1..Len(seq) : seq[i] = b})

\* how many times block b occurs in the rows, all rows together
RECURSIVE OccurrencesInRows(_, _)
OccurrencesInRows(rows, b) ==
    IF rows = <<>> THEN 0
    ELSE Occurrences(rows[1], b) + OccurrencesInRows(Tail(rows), b)

\* C9: _group_by_rows partitions its input: every input block is in the
\* output rows exactly as often as in the input (none dropped, none
\* duplicated, none invented), no row is empty, and no blocks give no rows.
C9_RowsPartition ==
    InRows =>
        /\ \A b \in BlockInputs :
              OccurrencesInRows(ret, b) = Occurrences(text_blocks, b)
        /\ \A r \in 1..Len(ret) : ret[r] # <<>>
        /\ text_blocks = <<>> => ret = <<>>

\* C9 witness: three blocks were split into two rows, one of them of two
C9_Witness ==
    InRows /\ Len(text_blocks) = 3 /\ Len(ret) = 2
        /\ \E r \in 1..Len(ret) : Len(ret[r]) = 2

\* the rows as sets of blocks
RowSets(rows) == {{rows[r][i] : i \in 1..Len(rows[r])} : r \in 1..Len(rows)}

\* every reordering of the sequence
Reorderings(seq) ==
    {[i \in 1..Len(seq) |-> seq[f[i]]] :
        f \in {g \in [1..Len(seq) -> 1..Len(seq)] :
                  \A i, j \in 1..Len(seq) : i # j => g[i] # g[j]}}

\* C10: clustering any permutation of the input gives the same rows as sets
\* of blocks, also when several blocks share a center_y.
C10_OrderIndependent ==
    InRows =>
        \A p \in Reorderings(text_blocks) :
            RowSets(group_by_rows(p, y_threshold)) = RowSets(ret)

\* C10 witness: an input that is not in center_y order, with two blocks on
\* the same center_y, was clustered into more than one row
C10_Witness ==
    /\ InRows /\ Len(ret) > 1
    /\ \E i, j \in 1..Len(text_blocks) :
          i < j /\ text_blocks[i].bbox.center_y > text_blocks[j].bbox.center_y
    /\ \E i, j \in 1..Len(text_blocks) :
          /\ i # j /\ text_blocks[i] # text_blocks[j]
          /\ text_blocks[i].bbox.center_y = text_blocks[j].bbox.center_y

(***************************************************************************)
(* Properties of the report validator                                      *)
(***************************************************************************)
InValidate == op = "validate_glucose_report"
InQuality == op = "validate_image_text_quality"
InComprehensive == op = "comprehensive_validation"

\* the text of the call as the keyword search reads it
NormText ==
    IF extracted_text.kind = "str" THEN _normalize_text(extracted_text.s) ELSE <<>>

\* the glucose keywords found in the text, and how many
GlucoseHits == _find_keywords(NormText, GLUCOSE_KEYWORDS)
GlucoseCount == Cardinality(GlucoseHits)

\* keyword hits of each rejection domain, and of all seven together
DomainHits ==
    LET text == NormText
    IN [i \in 1..Len(REJECTION_KEYWORDS) |->
          Cardinality(_find_keywords(text, REJECTION_KEYWORDS[i].keywords))]
RECURSIVE SumHits(_, _)
SumHits(hits, i) == IF i = 0 THEN 0 ELSE hits[i] + SumHits(hits, i - 1)
TotalRejectionHits == SumHits(DomainHits, Len(REJECTION_KEYWORDS))

\* C11: for a non-empty text validate_glucose_report is valid exactly when
\* at least 2 glucose keywords are found, or exactly 1 while the rejection
\* hits of all seven domains together are at most 3; an empty or
\* whitespace-only text is invalid with confidence 0.0.
C11_ValidityDecision ==
    InValidate =>
        IF IsBlank(extracted_text)
        THEN ~ret.is_valid /\ ret.confidence = 0
        ELSE LET n == GlucoseCount
             IN /\ ret.is_valid <=> (n >= 2 \/ (n = 1 /\ TotalRejectionHits <= 3))
                /\ n >= 2 => ret.is_valid

\* C11 witness: one glucose keyword and exactly 3 rejection hits, accepted
C11_Witness ==
    /\ InValidate /\ ~IsBlank(extracted_text)
    /\ GlucoseCount = 1 /\ TotalRejectionHits = 3 /\ ret.is_valid

\* the text names hemoglobin and nothing that ties it to HbA1c
HemoglobinAlone ==
    /\ Contains(NormText, s_hemoglobin)
    /\ \A k \in {s_a1c, s_glycated, s_glycosylated, s_hba1c} : ~Contains(NormText, k)

\* C12: when the text contains 'hemoglobin' and none of 'a1c', 'glycated',
\* 'glycosylated', 'hba1c', the keyword 'hemoglobin' is not in keywords_found
\* and the verdict is the one of the glucose keywords other than it; the
\* text "hemoglobin 13.5 wbc 7200 platelet 250000" is rejected as
\* 'haematology'.
C12_HemoglobinAlone ==
    /\ (InValidate /\ HemoglobinAlone) =>
          LET others == GlucoseHits \ {s_hemoglobin}
              n == Cardinality(others)
          IN /\ s_hemoglobin \notin ret.keywords_found
             /\ ret.keywords_found \subseteq others
             /\ ret.is_valid <=> (n >= 2 \/ (n = 1 /\ TotalRejectionHits <= 3))
    /\ (InValidate /\ extracted_text = PyStr(x_hemoglobin)) =>
          ~ret.is_valid /\ ret.report_type_detected = "haematology"

\* C12 witness: the blood-count text was rejected as haematology
C12_Witness ==
    /\ InValidate /\ extracted_text = PyStr(x_hemoglobin) /\ HemoglobinAlone
    /\ ~ret.is_valid /\ ret.report_type_detected = "haematology"

\* the verdicts of the first two stages on the text of the call
QualityPasses == validate_image_text_quality(extracted_text).is_sufficient
ClassifierAccepts == validate_glucose_report(extracted_text).is_valid

\* C15: comprehensive_validation stops at the first failing stage; is_valid
\* holds exactly at stage 'complete'; a quality failure gives 'quality_check'
\* with report_validation and report_type null; a classifier rejection gives
\* 'report_validation' with report_type null; when both pass the result is a
\* success whatever type detection finds; 3 words and no digit give
\* 'quality_check'.
C15_StagesInOrder ==
    InComprehensive =>
        /\ ret.is_valid <=> ret.validation_stage = "complete"
        /\ IF ~QualityPasses
           THEN /\ ret.validation_stage = "quality_check"
                /\ ret.report_validation = Null /\ ret.report_type = Null
           ELSE LET verdict == validate_glucose_report(extracted_text)
                IN IF ~verdict.is_valid
                   THEN /\ ret.validation_stage = "report_validation"
                        /\ ret.report_validation = verdict
                        /\ ret.report_type = Null
                   ELSE /\ ret.validation_stage = "complete" /\ ret.is_valid
                        /\ ret.report_type # Null
        /\ (/\ extracted_text.kind = "str"
            /\ WordCount(extracted_text.s) = 3
            /\ ~HasNumbers(extracted_text.s)) =>
              ret.validation_stage = "quality_check" /\ ~ret.is_valid

\* C15 witness: both gates passed and no specific test type was detected
C15_Witness ==
    /\ InComprehensive /\ QualityPasses /\ ClassifierAccepts
    /\ ret.validation_stage = "complete"
    /\ ret.report_type.test_type = "unknown"

\* domain i has the most hits, and more than every domain before it
WinningDomain(hits, i) ==
    /\ \A j \in 1..Len(REJECTION_KEYWORDS) : hits[j] <= hits[i]
    /\ \A j \in 1..(i - 1) : hits[j] < hits[i]

\* the text is rejected on the strength of rejection-domain hits
RejectedForDomain ==
    /\ InValidate /\ ~IsBlank(extracted_text)
    /\ \/ GlucoseCount = 0 /\ TotalRejectionHits >= 1
       \/ GlucoseCount = 1 /\ TotalRejectionHits > 3

\* C16: a text rejected with rejection-domain hits is reported as the domain
\* with the most hits, ties going to the first of haematology, lipid, liver,
\* kidney, thyroid, urine, cardiac, with that domain's canned message; with
\* no glucose keyword and no hit the report type is 'unknown'.
C16_WinningDomain ==
    /\ [i \in 1..Len(REJECTION_KEYWORDS) |-> REJECTION_KEYWORDS[i].name]
          = <<"haematology", "lipid", "liver", "kidney", "thyroid", "urine", "cardiac">>
    /\ RejectedForDomain =>
          LET hits == DomainHits
          IN /\ ~ret.is_valid
             /\ \A i \in 1..Len(REJECTION_KEYWORDS) :
                   WinningDomain(hits, i) =>
                       /\ ret.report_type_detected = REJECTION_KEYWORDS[i].name
                       /\ ret.message = REJECTION_KEYWORDS[i].message
    /\ (InValidate /\ ~IsBlank(extracted_text)
          /\ GlucoseCount = 0 /\ TotalRejectionHits = 0) =>
          ret.report_type_detected = "unknown"

\* C16 witness: haematology and lipid tie on 2 hits each, haematology wins
C16_Witness ==
    /\ RejectedForDomain
    /\ DomainHits[1] = 2 /\ DomainHits[2] = 2
    /\ ret.report_type_detected = "haematology"

\* the hits of the domain that wins
WinningHits ==
    LET hits == DomainHits
    IN hits[CHOOSE i \in 1..Len(REJECTION_KEYWORDS) : WinningDomain(hits, i)]

\* C17: confidence (in hundredths) depends on the keyword counts only: with
\* n >= 2 glucose keywords min(95, 60 + 10n); with exactly 1, 30 when rejected
\* and 50 when accepted; with none and h >= 1 hits in the winning domain
\* min(90, 50 + 10h); otherwise 0; so it lies in 0..100, and a text with
\* "fasting blood sugar 105 mg/dl" and "hba1c 5.5%" is valid with at least 60.
C17_Confidence ==
    InValidate =>
        /\ LET n == GlucoseCount
                 h == WinningHits
             IN ret.confidence =
                  IF IsBlank(extracted_text) THEN 0
                  ELSE IF n >= 2 THEN (IF 60 + 10 * n < 95 THEN 60 + 10 * n ELSE 95)
                  ELSE IF n = 1 THEN (IF ret.is_valid THEN 50 ELSE 30)
                  ELSE IF h >= 1 THEN (IF 50 + 10 * h < 90 THEN 50 + 10 * h ELSE 90)
                  ELSE 0
        /\ ret.confidence \in 0..100
        /\ (/\ extracted_text.kind = "str"
            /\ Contains(extracted_text.s, t_fasting)
            /\ Contains(extracted_text.s, t_hba1c)) =>
              ret.is_valid /\ ret.confidence >= 60

\* C17 witness: both phrases present, four glucose keywords, the cap applies
C17_Witness ==
    /\ InValidate /\ extracted_text.kind = "str"
    /\ Contains(extracted_text.s, t_fasting)
    /\ Contains(extracted_text.s, t_hba1c)
    /\ GlucoseCount = 4 /\ ret.confidence = 95

\* the word count and the digit test of the quality gate, on the argument
WordsOf == IF extracted_text.kind = "str" THEN WordCount(extracted_text.s) ELSE 0
DigitIn == extracted_text.kind = "str" /\ HasNumbers(extracted_text.s)

\* the gate rejects exactly the texts of fewer than 5 words or without digit
GateRejectsExactly ==
    /\ ~ret.is_sufficient <=> (WordsOf < 5 \/ ~DigitIn)
    /\ (WordsOf >= 5 /\ DigitIn) => ret.is_sufficient /\ "quality" \in DOMAIN ret

\* C20 as stated: a text that passes is flagged 'low' exactly when its word
\* count is between 5 and 15, both included.
C20_Original ==
    InQuality =>
        /\ GateRejectsExactly
        /\ (WordsOf >= 5 /\ DigitIn) =>
              (ret.quality = "low" <=> (5 <= WordsOf /\ WordsOf <= 15))

\* C20: validate_image_text_quality rejects exactly the texts of fewer than
\* 5 words or without a digit; a text that passes is flagged 'low' exactly
\* when its word count is at least 5 and below 15.
C20_QualityGate ==
    InQuality =>
        /\ GateRejectsExactly
        /\ (WordsOf >= 5 /\ DigitIn) =>
              (ret.quality = "low" <=> (5 <= WordsOf /\ WordsOf < 15))

\* C20 witness: 15 words with a digit pass and are not flagged 'low'
C20_Witness ==
    /\ InQuality /\ WordsOf = 15 /\ DigitIn
    /\ ret.is_sufficient /\ ret.quality = "moderate"

(***************************************************************************)
(* Properties of detect_report_type                                        *)
(***************************************************************************)
InDetect == op = "detect_report_type"

\* keyword hits of each test type in the text of the call
TypeHits ==
    LET text == NormText
    IN [i \in 1..Len(GLUCOSE_TEST_TYPES) |->
          Cardinality(_find_keywords(text, GLUCOSE_TEST_TYPES[i].keywords))]

\* position of a type code in the table
TypeIndex(type) == CHOOSE i \in 1..Len(GLUCOSE_TEST_TYPES) : GLUCOSE_TEST_TYPES[i].type = type

\* all_types lists exactly the types that were hit, each once, larger hit
\* counts first and equal counts in table order
RankedByHits(all_types, hits) ==
    /\ {all_types[j] : j \in 1..Len(all_types)}
          = {GLUCOSE_TEST_TYPES[i].type : i \in {k \in DOMAIN hits : hits[k] > 0}}
    /\ \A j, k \in 1..Len(all_types) :
          j < k =>
             LET a == TypeIndex(all_types[j])
                 b == TypeIndex(all_types[k])
             IN hits[a] > hits[b] \/ (hits[a] = hits[b] /\ a < b)

\* C21: detect_report_type returns the single type hit with is_multiple
\* false; with several types hit it returns 'multiple', all_types ranked by
\* hit count (ties in the order fasting, hba1c, ppbs, rbs, ogtt) and
\* primary_type the first of them; with no type hit it returns 'unknown' with
\* empty all_types; it never raises.
C21_DetectReportType ==
    InDetect =>
        LET hits == TypeHits
            hit == {i \in DOMAIN hits : hits[i] > 0}
        IN /\ ~Raised(ret)
           /\ Cardinality(hit) = 1 =>
                 /\ \A i \in hit : ret.test_type = GLUCOSE_TEST_TYPES[i].type
                 /\ ~ret.is_multiple
           /\ Cardinality(hit) > 1 =>
                 /\ ret.test_type = "multiple" /\ ret.is_multiple
                 /\ RankedByHits(ret.all_types, hits)
                 /\ ret.primary_type = ret.all_types[1]
           /\ hit = {} =>
                 /\ ret.test_type = "unknown" /\ ret.all_types = <<>>
                 /\ ~ret.is_multiple

\* C21 witness: a later type of the table outranks an earlier one, and two
\* types tie
C21_Witness ==
    /\ InDetect /\ ret.is_multiple /\ Len(ret.all_types) = 3
    /\ TypeIndex(ret.all_types[1]) > TypeIndex(ret.all_types[2])
    /\ TypeHits[TypeIndex(ret.all_types[2])] = TypeHits[TypeIndex(ret.all_types[3])]

(***************************************************************************)
(* Properties of the order and the span of the rows                        *)
(***************************************************************************)
\* y_threshold is a distance: the extractor passes the default, 20
ThresholdIsDistance == y_threshold >= 0

\* C22: inside every row of _group_by_rows the blocks are in non-decreasing
\* x_min order, and every block of a later row has a center_y greater than
\* every block of an earlier row.
C22_RowOrdering ==
    InRows /\ ThresholdIsDistance =>
        /\ \A r \in 1..Len(ret) : \A i, j \in 1..Len(ret[r]) :
              i < j => ret[r][i].bbox.x_min <= ret[r][j].bbox.x_min
        /\ \A r, s \in 1..Len(ret) :
              r < s => \A i \in 1..Len(ret[r]), j \in 1..Len(ret[s]) :
                          ret[r][i].bbox.center_y < ret[s][j].bbox.center_y

\* C22 witness: the input was neither in center_y order nor, inside what
\* became one row, in x_min order, and two rows came out
C22_Witness ==
    /\ InRows /\ ThresholdIsDistance /\ Len(ret) = 2
    /\ \E i, j \in 1..Len(text_blocks) :
          i < j /\ text_blocks[i].bbox.center_y > text_blocks[j].bbox.center_y
    /\ \E r \in 1..Len(ret) : \E i, j \in 1..Len(text_blocks) :
          /\ i < j /\ text_blocks[i].bbox.x_min > text_blocks[j].bbox.x_min
          /\ Len(ret[r]) = 2
          /\ ret[r] = <<text_blocks[j], text_blocks[i]>>

\* smallest and largest center_y of a row; the smallest is that of the block
\* that opened the row, the blocks being visited in center_y order
RowTop(row) ==
    CHOOSE y \in {row[i].bbox.center_y : i \in 1..Len(row)} :
        \A i \in 1..Len(row) : y <= row[i].bbox.center_y
RowBottom(row) ==
    CHOOSE y \in {row[i].bbox.center_y : i \in 1..Len(row)} :
        \A i \in 1..Len(row) : y >= row[i].bbox.center_y

\* C28: in every row of _group_by_rows the largest and the smallest center_y
\* differ by at most y_threshold, and the block that opens a row after the
\* first lies more than y_threshold below the block that opened the row
\* before it.
C28_RowSpan ==
    InRows /\ ThresholdIsDistance =>
        /\ \A r \in 1..Len(ret) : RowBottom(ret[r]) - RowTop(ret[r]) <= y_threshold
        /\ \A r \in 1..Len(ret) :
              r > 1 => RowTop(ret[r]) - RowTop(ret[r - 1]) > y_threshold

\* C28 witness: a row spans exactly y_threshold, its neighbours in it are
\* closer than that, and the next block, within y_threshold of the row's
\* last block, opened a new row
C28_Witness ==
    /\ InRows /\ y_threshold > 0 /\ Len(ret) = 2
    /\ RowBottom(ret[1]) - RowTop(ret[1]) = y_threshold
    /\ RowTop(ret[2]) - RowBottom(ret[1]) <= y_threshold

(***************************************************************************)
(* Properties of the reported ranges and of the aggregates                 *)
(***************************************************************************)
\* C23: in every successful classify_glucose result the value lies inside
\* the reported range: range.min <= value, and value <= range.max when
\* range.max is not null.
C23_ValueInsideRange ==
    (Succeeded /\ value.kind = "num") =>
        /\ ret.range.min.n <= ret.value.n
        /\ ret.range.max.kind = "num" => ret.value.n <= ret.range.max.n

\* C24: a canonical value inside normal_range, its lower bound included, is
\* classified 'Normal', and a value classified 'Normal' lies inside
\* normal_range.
C24_NormalRangeAgrees ==
    (Succeeded /\ value.kind = "num") =>
        LET v == Canonical.n
            inside == ret.normal_range.min <= v /\ v <= ret.normal_range.max
        IN inside <=> ret.classification = "Normal"

\* severities in rising order; anything else ranks below them
SeverityRank(severity) ==
    CASE severity = "low" -> 1
      [] severity = "moderate" -> 2
      [] severity = "high" -> 3
      [] OTHER -> 0

\* the level the summary sentence of /api/analyze speaks of
SummaryRank(summary) ==
    CASE summary = SUMMARY_NORMAL -> 1
      [] summary = SUMMARY_PREDIABETES -> 2
      [] summary = SUMMARY_DIABETES -> 3
      [] OTHER -> 0

\* the readings of the batch that were classified, as the /api/analyze loop
\* keeps them
ClassifiedOfBatch ==
    LET ok(r) == r.success
        kept == SelectSeq(ret.results, ok)
    IN [i \in 1..Len(kept) |-> [classification |-> kept[i]]]

\* C25: overall_severity of classify_multiple is at least the severity of
\* every successfully classified reading, and the summary /api/analyze
\* chooses for the same readings is at the same level.
C25_AggregateNotBelowReading ==
    BatchReturned =>
        LET kept == ClassifiedOfBatch
            overall == SeverityRank(ret.summary.overall_severity)
        IN /\ \A i \in 1..Len(kept) :
                 overall >= SeverityRank(kept[i].classification.severity)
           /\ kept # <<>> => SummaryRank(generate_summary(kept)) = overall

(***************************************************************************)
(* Properties of the /api/analyze handler                                  *)
(***************************************************************************)
InAnalyze == op = "analyze_report"

\* the response of a report whose values were extracted and classified
FullResponse == InAnalyze /\ stage = "return" /\ "classifications" \in DOMAIN ret

\* classify_glucose accepts the record of the extractor
Classifiable(d) ==
    LET c == classify_glucose(PyStr(d.test_type), PyNum(d.value), PyStr(d.unit))
    IN ~Raised(c) /\ c.success

\* C26: every record the extractor produces, in the row pass or in the
\* fallback pass, is accepted by classify_glucose with success true, and the
\* classifications of an /api/analyze response are as many as its
\* detected_values.
C26_DetectedAreClassified ==
    /\ (InAnalyze /\ stage \in {"extracted", "validated"}) =>
          \A i \in 1..Len(frame.ocr_result.detected_values) :
              Classifiable(frame.ocr_result.detected_values[i])
    /\ FullResponse => Len(ret.classifications) = Len(ret.detected_values)

\* C26 witness: a response with two detected values, both classified, and a
\* response whose detected value comes from the fallback pass
C26_Witness ==
    /\ FullResponse
    /\ \/ Len(ret.detected_values) = 2 /\ Len(ret.classifications) = 2
       \/ /\ Len(ret.detected_values) = 1 /\ Len(ret.classifications) = 1
          /\ "extraction_method" \in DOMAIN ret.detected_values[1]

InExtract == op = "extract_glucose_values"

\* the engine gave at least one block
HasBlocks == InExtract /\ ocr_result.success /\ ocr_result.text_blocks # <<>>

\* the rows of the call, top to bottom, each left to right
RowsOfCall == group_by_rows(ocr_result.text_blocks, DEFAULT_Y_THRESHOLD)

IsFallbackRecord(d) == "extraction_method" \in DOMAIN d

\* the blocks of a row whose number passes the filter of test type t
PlausibleIn(row, t) ==
    {k \in 1..Len(row) :
        /\ _extract_number(row[k].text) # PyNone
        /\ Plausible(t, _extract_number(row[k].text).n)}

\* the test type each row names, if any
RowTypes(rows) == [i \in 1..Len(rows) |-> _find_test_type(JoinTexts(rows[i]))]

\* the rows that name test type t and hold a number plausible for it
RowsFor(rows, types, t) ==
    {i \in 1..Len(rows) : types[i] = PyStr(t) /\ PlausibleIn(rows[i], t) # {}}

\* the rows of the call that do so
RowsOfCallFor(t) == RowsFor(RowsOfCall, RowTypes(RowsOfCall), t)

\* C13: detected_values holds at most one record per test type, from the
\* row pass or from the fallback, and every test_type is one of the five of
\* the threshold table.
C13_OnePerTestType ==
    InExtract =>
        /\ \A i, j \in 1..Len(ret.detected_values) :
              i # j => ret.detected_values[i].test_type # ret.detected_values[j].test_type
        /\ \A i \in 1..Len(ret.detected_values) :
              ret.detected_values[i].test_type \in DOMAIN THRESHOLDS

\* C13 witness: two rows name fasting with a plausible number each, and one
\* fasting record came back
C13_Witness ==
    /\ HasBlocks
    /\ Cardinality(RowsOfCallFor(s_fasting)) >= 2
    /\ Len(ret.detected_values) = 1
    /\ ret.detected_values[1].test_type = s_fasting

\* the first row reads, left to right, "Page 2 of 5", "Fasting", "105"
PageFastingRow ==
    /\ HasBlocks
    /\ LET row == RowsOfCall[1]
       IN /\ [k \in 1..Len(row) |-> row[k].text] = <<b_page, b_fasting, b_105>>
          /\ row[1].bbox.x_min < row[2].bbox.x_min
          /\ row[2].bbox.x_min < row[3].bbox.x_min

\* C14: for a row reading, left to right, "Page 2 of 5", "Fasting", "105",
\* the fasting record has value 105: neither 2 nor 5 is selected.
C14_NumberAfterKeyword ==
    PageFastingRow =>
        /\ \E i \in 1..Len(ret.detected_values) :
              ret.detected_values[i].test_type = s_fasting
        /\ \A i \in 1..Len(ret.detected_values) :
              ret.detected_values[i].test_type = s_fasting =>
                  ret.detected_values[i].value = 105 * GridPerUnit

\* the row-sourced records of the result
RowRecords == SelectSeq(ret.detected_values, LAMBDA d : ~IsFallbackRecord(d))

\* C18: for each test type, the row pass records the first row that names
\* the type and holds a number inside the filter (3 to 20 for hba1c, 1 to 700
\* otherwise), with the number of its leftmost such block; rows that name the
\* type without such a number record nothing and do not take the type; no
\* recorded number lies outside the filter.
C18_LeftmostPlausible ==
    HasBlocks =>
        LET rows == RowsOfCall
            types == RowTypes(rows)
            records == RowRecords
        IN /\ \A i \in 1..Len(records) :
                 LET d == records[i]
                 IN /\ IF d.test_type = s_hba1c
                       THEN 3 * GridPerUnit <= d.value /\ d.value <= 20 * GridPerUnit
                       ELSE GridPerUnit <= d.value /\ d.value <= 700 * GridPerUnit
                    /\ RowsFor(rows, types, d.test_type) # {}
           /\ \A t \in {types[j].s : j \in {a \in 1..Len(rows) : types[a] # PyNone}} :
                 LET R == RowsFor(rows, types, t)
                 IN R # {} =>
                      LET r == CHOOSE a \in R : \A b \in R : a <= b
                          P == PlausibleIn(rows[r], t)
                          k == CHOOSE a \in P : \A b \in P : a <= b
                      IN /\ \A b \in P : rows[r][k].bbox.x_min <= rows[r][b].bbox.x_min
                         /\ \E i \in 1..Len(records) :
                               /\ records[i].test_type = t
                               /\ records[i].value = _extract_number(rows[r][k].text).n
                               /\ records[i].row_text = JoinTexts(rows[r])

\* C18 witness: a fasting row without a plausible number was passed over and
\* a later fasting row gave the record
C18_Witness ==
    /\ HasBlocks
    /\ \E i, j \in 1..Len(RowsOfCall) :
          /\ i < j
          /\ _find_test_type(JoinTexts(RowsOfCall[i])) = PyStr(s_fasting)
          /\ PlausibleIn(RowsOfCall[i], s_fasting) = {}
          /\ RowsOfCallFor(s_fasting) = {j}
    /\ Len(RowRecords) = 1 /\ RowRecords[1].test_type = s_fasting

\* what each pass finds on the blocks of the call
RowPassOfCall == RowPass(RowsOfCall, 1, <<>>, {})
FallbackOfCall == _fallback_extraction(ocr_result.text_blocks, {})

\* C19: the fallback runs exactly when the row pass recorded nothing: a
\* result with a row-sourced record has no fallback record, and a row pass
\* without record gives the fallback's records; every fallback record has
\* confidence 0.70, the fallback tag and a value inside the filter of its
\* test type.
C19_FallbackOnlyWhenEmpty ==
    HasBlocks =>
        /\ LET row_values == RowPassOfCall.detected_values
           IN IF row_values # <<>>
              THEN /\ ret.detected_values = row_values
                   /\ \A i \in 1..Len(ret.detected_values) :
                         ~IsFallbackRecord(ret.detected_values[i])
              ELSE /\ ret.detected_values = FallbackOfCall
                   /\ \A i \in 1..Len(ret.detected_values) :
                         IsFallbackRecord(ret.detected_values[i])
        /\ \A i \in 1..Len(ret.detected_values) :
              LET d == ret.detected_values[i]
              IN IsFallbackRecord(d) =>
                    /\ d.confidence = 70
                    /\ d.extraction_method = "fallback"
                    /\ IF d.test_type = s_hba1c
                       THEN 3 * GridPerUnit <= d.value /\ d.value <= 20 * GridPerUnit
                       ELSE GridPerUnit <= d.value /\ d.value <= 700 * GridPerUnit

\* C19 witness: the row pass recorded a value, the fallback would have found
\* one for another type, and the result holds the row record alone
C19_Witness ==
    /\ HasBlocks
    /\ RowPassOfCall.detected_values # <<>>
    /\ \E i \in 1..Len(FallbackOfCall) :
          \A j \in 1..Len(ret.detected_values) :
              FallbackOfCall[i].test_type # ret.detected_values[j].test_type
    /\ \A j \in 1..Len(ret.detected_values) : ~IsFallbackRecord(ret.detected_values[j])

\* the text of the row holds a keyword of test type t
RowNames(row, t) ==
    \E g \in 1..Len(OCRService_GLUCOSE_KEYWORDS) :
        /\ OCRService_GLUCOSE_KEYWORDS[g].test_type = t
        /\ \E k \in 1..Len(OCRService_GLUCOSE_KEYWORDS[g].keywords) :
              Contains(Lower(JoinTexts(row)), OCRService_GLUCOSE_KEYWORDS[g].keywords[k])

\* the row pass recorded test type t
RowPassRecorded(t) ==
    \E i \in 1..Len(ret.detected_values) :
        /\ ret.detected_values[i].test_type = t
        /\ ~IsFallbackRecord(ret.detected_values[i])

\* C27: whenever a row holds a keyword of test type t and a block with a
\* number plausible for t, the row pass records a value for t, also when the
\* row holds a keyword of another test type as well.
C27_RowPassComplete ==
    HasBlocks =>
        \A t \in DOMAIN THRESHOLDS :
            (\E i \in 1..Len(RowsOfCall) :
                RowNames(RowsOfCall[i], t) /\ PlausibleIn(RowsOfCall[i], t) # {})
                => RowPassRecorded(t)

(***************************************************************************)
(* Properties of the service getters                                       *)
(***************************************************************************)
\* C30: each service is constructed at most once, and all callers of a
\* getter that have returned hold the same instance, whatever the
\* interleaving of their check, construction and assignment.
C30_SingleInstance ==
    /\ \A s \in Services : constructed[s] <= 1
    /\ \A t1, t2 \in Threads :
          (/\ callers[t1].pc = "done" /\ callers[t2].pc = "done"
           /\ callers[t1].service = callers[t2].service)
              => callers[t1].got = callers[t2].got

====
